---- MODULE Spec2Model ----
(***************************************************************************)
(* Order placement and inventory of SupplyChainManagement-SmartOps.        *)
(*                                                                         *)
(* The backend is a single Node.js process on better-sqlite3, whose calls  *)
(* are synchronous: every route handler and socket handler below runs to   *)
(* completion before the next one starts, so concurrent requests are       *)
(* handled one after the other in an arbitrary order.  Each handler is one *)
(* action; Next takes them in every order.                                 *)
(*                                                                         *)
(* Money is kept in cents.                                                 *)
(***************************************************************************)
EXTENDS Integers, Sequences, FiniteSets, TLC

VARIABLES
    db,        \* the SQLite tables
    pre,       \* the tables as they were when the last handler started
    resp,      \* what the last handler answered
    emitted,   \* the socket events the last handler emitted, in order
    adjusted,  \* products whose stock an admin handler has written
    handled,   \* how many requests and commands have been handled
    faulted,   \* whether the storage or the transport has failed once
    orderData,    \* the first argument of detectFraudRisk
    userHistory,  \* the second argument of detectFraudRisk
    evaluations,  \* what the calls of detectFraudRisk on these arguments returned
    sockets,      \* the connected Socket.IO clients and who they are
    received,     \* the events the last handler delivered, per client
    connectedUsers,  \* the Map of socketHandler.js, by user id
    client     \* the browser of one customer: its cart state and its calls in flight

vars == <<db, pre, resp, emitted, adjusted, handled, faulted,
          orderData, userHistory, evaluations, sockets, received, connectedUsers,
          client>>

----------------------------------------------------------------------------
(* Bounds of the exploration *)

MaxRequests == 2    \* requests and commands handled in one behaviour
MaxEvaluations == 2 \* calls of detectFraudRisk on the same arguments

----------------------------------------------------------------------------
(* The rows the database starts with *)

ProductIds == {1, 2}
RequestedProductIds == ProductIds \cup {3}      \* 3 is in no products row
Customers == {2, 3}
AdminId == 1

ProductName == [p \in ProductIds |-> IF p = 1 THEN "Quantum Laptop" ELSE "4K Ultra-HD Monitor"]
ProductPrice == [p \in ProductIds |-> IF p = 1 THEN 129999 ELSE 34999]
InitialStock == [p \in ProductIds |-> IF p = 1 THEN 3 ELSE 1]

TrackingNumbers == {"TRK-a", "TRK-b"}

Quantities == {1, 2}
Lines == {[productId |-> 1, quantity |-> 2], [productId |-> 2, quantity |-> 1],
          [productId |-> 3, quantity |-> 1]}

RECURSIVE ListsUpTo(_)
ListsUpTo(n) ==
    IF n = 0 THEN {<< >>}
    ELSE LET shorter == ListsUpTo(n - 1)
         IN  shorter \cup {Append(l, x) : l \in {s \in shorter : Len(s) = n - 1}, x \in Lines}

ItemLists == ListsUpTo(2)

\* the item lists of 1 to n lines
RECURSIVE ItemListsOf(_, _)
ItemListsOf(lines, n) ==
    IF n = 1 THEN {<< x >> : x \in lines}
    ELSE LET shorter == ItemListsOf(lines, n - 1)
         IN  shorter \cup {Append(l, x) : l \in {t \in shorter : Len(t) = n - 1}, x \in lines}

\* Each customer has put one unit of one product in the cart
InitialCart == {[user_id |-> u, product_id |-> u - 1, quantity |-> 1] : u \in Customers}

InitialDb ==
    [products |-> [p \in ProductIds |->
                      [name |-> ProductName[p], price |-> ProductPrice[p],
                       stock_quantity |-> InitialStock[p]]],
     cart_items |-> InitialCart,
     orders |-> << >>,
     order_items |-> << >>,
     shipments |-> << >>,
     inventory_transactions |-> << >>]

----------------------------------------------------------------------------
(* Errors and responses *)

NoError == [kind |-> "none", productId |-> 0, name |-> "", available |-> 0, requested |-> 0]

ErrorOf(kind) == [NoError EXCEPT !.kind = kind]

NotFoundError(productId) == [NoError EXCEPT !.kind = "not_found", !.productId = productId]

\* the two numbers of the message the other way round
InsufficientStockErrorSwapped(product, productId, quantity) ==
    [kind |-> "insufficient_stock", productId |-> productId, name |-> product.name,
     available |-> quantity, requested |-> product.stock_quantity]

InsufficientStockError(product, productId, quantity) ==
    [kind |-> "insufficient_stock", productId |-> productId, name |-> product.name,
     available |-> product.stock_quantity, requested |-> quantity]

\* error.message.includes('stock') || error.message.includes('not found') ? 400 : 500
StatusCode(error) ==
    IF error.kind \in {"insufficient_stock", "not_found"} THEN 400 ELSE 500

NoResponse ==
    [op |-> "none", user |-> 0, items |-> << >>, status |-> 0, error |-> NoError,
     orderId |-> 0, trackingNumber |-> "", totalAmount |-> 0, phase |-> "",
     failedAt |-> "", reply |-> "", fraudRisk |-> "", fraudReasons |-> [type |-> "undefined"]]

----------------------------------------------------------------------------
(* The browser's calls in flight and the responses on their way back *)

\* no CartProvider is mounted
NoClient ==
    [mounted |-> FALSE, user |-> 0, items |-> << >>, totalItems |-> 0,
     calls |-> {}, issued |-> 0, inbox |-> 0]

\* the requests of the browser's user that wait for this handler
Awaiting(c, r) ==
    {call \in c.calls : call.phase = "request" /\ call.op = r.op /\ call.items = r.items}

\* res.status(...).json(...) answers the caller, and the 'cart_updated' events
\* of the handler reach the browser's socket
Respond(c, r, events) ==
    IF ~c.mounted \/ r.user # c.user THEN c
    ELSE LET call == CHOOSE call \in Awaiting(c, r) :
                         \A other \in Awaiting(c, r) : call.id <= other.id
             answered == IF Awaiting(c, r) = {} THEN c.calls
                         ELSE (c.calls \ {call}) \cup
                                  {[call EXCEPT !.phase = "response",
                                                !.ok = (r.status \in 200..299)]}
         IN  [c EXCEPT !.calls = answered,
                       !.inbox = @ + Cardinality({i \in 1..Len(events) :
                                     /\ events[i].event = "cart_updated"
                                     /\ events[i].userId = c.user})]

----------------------------------------------------------------------------
(* The statements on the cart_items table, a set of rows *)

\* SELECT ... FROM cart_items WHERE user_id = ?
CartOf(cart_items, userId) == {row \in cart_items : row.user_id = userId}

\* SELECT quantity FROM cart_items WHERE user_id = ? AND product_id = ?
SelectCartItem(cart_items, userId, productId) ==
    {row \in cart_items : row.user_id = userId /\ row.product_id = productId}

\* INSERT INTO cart_items (user_id, product_id, quantity); UNIQUE (user_id, product_id)
InsertCartItem(cart_items, userId, productId, quantity) ==
    IF SelectCartItem(cart_items, userId, productId) # {}
    THEN [error |-> ErrorOf("unique"), cart_items |-> cart_items]
    ELSE [error |-> NoError,
          cart_items |-> cart_items \cup {[user_id |-> userId, product_id |-> productId,
                                           quantity |-> quantity]}]

\* INSERT ... ON CONFLICT DO UPDATE in place of the UPDATE
UpsertCartItem(cart_items, userId, productId, quantity) ==
    [changes |-> 1,
     cart_items |-> (cart_items \ SelectCartItem(cart_items, userId, productId))
                    \cup {[user_id |-> userId, product_id |-> productId,
                           quantity |-> quantity]}]

\* UPDATE cart_items SET quantity = ? WHERE user_id = ? AND product_id = ?
UpdateCartItemStatement(cart_items, userId, productId, quantity) ==
    LET rows == SelectCartItem(cart_items, userId, productId)
    IN  [changes |-> Cardinality(rows),
         cart_items |-> (cart_items \ rows)
                        \cup {[row EXCEPT !.quantity = quantity] : row \in rows}]

\* DELETE FROM cart_items WHERE user_id = ? AND product_id = ?
DeleteCartItem(cart_items, userId, productId) ==
    LET rows == SelectCartItem(cart_items, userId, productId)
    IN  [changes |-> Cardinality(rows), cart_items |-> cart_items \ rows]

\* DELETE FROM cart_items WHERE user_id = ?
DeleteCart(cart_items, userId) == cart_items \ CartOf(cart_items, userId)

----------------------------------------------------------------------------
(* utils/fraudDetection.js *)

\* A JavaScript number that may be missing: undefined, or NaN after parsing
Undefined == [defined |-> FALSE, value |-> 0]

Num(n) == [defined |-> TRUE, value |-> n]

\* x > n in JavaScript: false when x is undefined or NaN
Greater(x, n) == x.defined /\ x.value > n

\* item.price, item.quantity, item.name: undefined when the object has no such key
Field(object, key) == IF key \in DOMAIN object THEN Num(object[key]) ELSE Undefined

\* parseFloat(orderData.total_amount): a number and a numeric string give the
\* number, everything else (text, undefined, null) gives NaN
ParseFloat(v) == IF v.type \in {"number", "numericString"} THEN Num(v.value) ELSE Undefined

\* JSON.stringify gives a string, kept as the value it encodes; JSON.parse of a
\* string gives that value back, which is a string again when a string was encoded
JSONStringify(v) == [type |-> "string", json |-> v]

JSONParse(s) == s.json

\* const reasons = []; reasons.push(...)
Array(elements) == [type |-> "array", elements |-> elements]

Reason(rule, detail) == [rule |-> rule, detail |-> detail]

\* if (isNaN(totalAmount)) { riskScore += 10; reasons.push(...) }
InvalidAmountRule(totalAmount) ==
    [threw |-> FALSE, fires |-> ~totalAmount.defined, points |-> 10,
     reason |-> Reason("invalid_amount", "")]

\* Rule 1: if (totalAmount > 1000)
HighValueRule(totalAmount) ==
    [threw |-> FALSE, fires |-> Greater(totalAmount, 100000), points |-> 40,
     reason |-> Reason("high_value", totalAmount.value)]

\* Rule 2 reading total_orders of whatever it is given
FirstTimeRuleUnguarded(totalAmount, history) ==
    [threw |-> history.type \in {"undefined", "null"},
     fires |-> history.type = "object" /\ history.total_orders = 0
               /\ Greater(totalAmount, 50000),
     points |-> 50, reason |-> Reason("first_time", "")]

\* Rule 2: if (userHistory && userHistory.total_orders === 0 && totalAmount > 500)
FirstTimeRule(totalAmount, history) ==
    [threw |-> FALSE,
     fires |-> history.type = "object" /\ history.total_orders = 0
               /\ Greater(totalAmount, 50000),
     points |-> 50, reason |-> Reason("first_time", "")]

\* item => item.price > 300 && item.quantity > 3
HighValueItem(item) == Greater(Field(item, "price"), 30000) /\ Greater(Field(item, "quantity"), 3)

\* Rule 3: if (orderData.items && Array.isArray(orderData.items)) { items.find(...) }
BulkRule(items) ==
    LET isArray == items.type = "array"
        found   == IF isArray
                   THEN {i \in 1..Len(items.elements) : HighValueItem(items.elements[i])}
                   ELSE {}
        first   == CHOOSE i \in found : \A j \in found : i <= j
    IN  [threw |-> FALSE, fires |-> found # {}, points |-> 30,
         reason |-> IF found = {} THEN Reason("bulk", "")
                    ELSE Reason("bulk", IF "name" \in DOMAIN items.elements[first]
                                        THEN items.elements[first].name ELSE "undefined")]

RECURSIVE RiskScore(_, _)
RiskScore(rules, i) ==
    IF i > Len(rules) THEN 0
    ELSE (IF rules[i].fires THEN rules[i].points ELSE 0) + RiskScore(rules, i + 1)

RECURSIVE Reasons(_, _)
Reasons(rules, i) ==
    IF i > Len(rules) THEN << >>
    ELSE (IF rules[i].fires THEN << rules[i].reason >> ELSE << >>) \o Reasons(rules, i + 1)

\* 'medium' starting at 50 points
RiskBandMediumFrom50(riskScore) ==
    IF riskScore >= 70 THEN "high" ELSE IF riskScore >= 50 THEN "medium" ELSE "low"

\* if (riskScore >= 70) 'high' else if (riskScore >= 40) 'medium' else 'low'
RiskBand(riskScore) ==
    IF riskScore >= 70 THEN "high" ELSE IF riskScore >= 40 THEN "medium" ELSE "low"

\* The function reads its arguments and assigns to none of them; what it leaves
\* of them is part of the result
detectFraudRisk(order, history) ==
    LET totalAmount == ParseFloat(order.total_amount)
        rules == << InvalidAmountRule(totalAmount), HighValueRule(totalAmount),
                    FirstTimeRule(totalAmount, history), BulkRule(order.items) >>
        threw == \E i \in 1..Len(rules) : rules[i].threw
    IN  [threw |-> threw,
         fraud_risk |-> IF threw THEN "" ELSE RiskBand(RiskScore(rules, 1)),
         fraud_reasons |-> JSONStringify(Array(IF threw THEN << >> ELSE Reasons(rules, 1))),
         orderData |-> order,
         userHistory |-> history]

----------------------------------------------------------------------------
(* POST /api/user/orders: the stock check loop *)

\* schemas.createOrder: at least one item, positive product ids and quantities
CreateOrderSchemaValid(items) ==
    /\ Len(items) >= 1
    /\ \A i \in 1..Len(items) : items[i].productId > 0 /\ items[i].quantity > 0

\* a check that only asks whether anything is left
InsufficientStockWhenEmpty(stock_quantity, quantity) == stock_quantity <= 0

\* product.stock_quantity < item.quantity
InsufficientStock(stock_quantity, quantity) == stock_quantity < quantity

\* the line kept without the price read from the products row
ProductUpdateUnpriced(product, productId, quantity) ==
    [productId |-> productId, productName |-> product.name, quantity |-> quantity,
     price |-> 0, previousStock |-> product.stock_quantity,
     newStock |-> product.stock_quantity - quantity]

ProductUpdate(product, productId, quantity) ==
    [productId |-> productId, productName |-> product.name, quantity |-> quantity,
     price |-> product.price, previousStock |-> product.stock_quantity,
     newStock |-> product.stock_quantity - quantity]

\* for (const item of items) { ... }: every line is checked against the stock
\* the products row holds when the loop runs; nothing is written yet
RECURSIVE StockCheckLoop(_, _, _, _)
StockCheckLoop(d, items, i, acc) ==
    IF i > Len(items) THEN acc
    ELSE LET item == items[i]
         IN  IF item.productId \notin DOMAIN d.products
             THEN [acc EXCEPT !.error = NotFoundError(item.productId)]
             ELSE LET product == d.products[item.productId]
                  IN  IF InsufficientStock(product.stock_quantity, item.quantity)
                      THEN [acc EXCEPT !.error =
                                InsufficientStockError(product, item.productId, item.quantity)]
                      ELSE StockCheckLoop(d, items, i + 1,
                               [acc EXCEPT !.totalAmount = @ + product.price * item.quantity,
                                           !.productUpdates =
                                               Append(@, ProductUpdate(product, item.productId,
                                                                       item.quantity))])

CheckedItems(d, items) ==
    StockCheckLoop(d, items, 1, [error |-> NoError, totalAmount |-> 0, productUpdates |-> << >>])

----------------------------------------------------------------------------
(* POST /api/user/orders: the statements of the transaction, in order *)

RECURSIVE PerLineWrites(_, _, _, _)
PerLineWrites(productUpdates, i, orderId, userId) ==
    IF i > Len(productUpdates) THEN << >>
    ELSE LET item == productUpdates[i]
         IN  << [op |-> "insertOrderItem", order_id |-> orderId, product_id |-> item.productId,
                 quantity |-> item.quantity, price |-> item.price],
                [op |-> "updateStock", product_id |-> item.productId,
                 stock_quantity |-> item.newStock],
                [op |-> "insertTransaction", product_id |-> item.productId, type |-> "sale",
                 quantity |-> 0 - item.quantity, previous_quantity |-> item.previousStock,
                 new_quantity |-> item.newStock, order_id |-> orderId, created_by |-> userId] >>
             \o PerLineWrites(productUpdates, i + 1, orderId, userId)

\* SELECT COUNT(*) as total_orders, SUM(total_amount) as total_spent FROM orders
\* WHERE user_id = ?
RECURSIVE TotalSpent(_, _, _)
TotalSpent(orders, userId, i) ==
    IF i > Len(orders) THEN 0
    ELSE (IF orders[i].user_id = userId THEN orders[i].total_amount ELSE 0)
         + TotalSpent(orders, userId, i + 1)

\* the orders of every user counted
UserHistoryOfAllUsers(d, userId) ==
    [type |-> "object", total_orders |-> Len(d.orders),
     total_spent |-> TotalSpent(d.orders, userId, 1)]

UserHistory(d, userId) ==
    [type |-> "object",
     total_orders |-> Cardinality({i \in 1..Len(d.orders) : d.orders[i].user_id = userId}),
     total_spent |-> TotalSpent(d.orders, userId, 1)]

\* { total_amount: totalAmount, shippingAddress, items, userId, userHistory }: the
\* items are those of the request body
OrderData(totalAmount, items) ==
    [total_amount |-> [type |-> "number", value |-> totalAmount],
     items |-> [type |-> "array", elements |-> items]]

NoOrderData == [total_amount |-> [type |-> "undefined", value |-> 0],
                items |-> [type |-> "undefined", elements |-> << >>]]

NoHistory == [type |-> "undefined", total_orders |-> 0, total_spent |-> 0]

\* the order written without a shipment row
TransactionStatementsWithoutShipment(userId, checked, fraud, trackingNumber, orderId) ==
    << [op |-> "selectHistory", user_id |-> userId],
       [op |-> "insertOrder", id |-> orderId, user_id |-> userId,
        total_amount |-> checked.totalAmount, status |-> "pending",
        tracking_number |-> trackingNumber, fraud_risk |-> fraud.fraud_risk,
        fraud_reasons |-> JSONStringify(fraud.fraud_reasons)] >>
    \o PerLineWrites(checked.productUpdates, 1, orderId, userId)
    \o << [op |-> "deleteCart", user_id |-> userId] >>

TransactionStatements(userId, checked, fraud, trackingNumber, orderId) ==
    << [op |-> "selectHistory", user_id |-> userId],
       [op |-> "insertOrder", id |-> orderId, user_id |-> userId,
        total_amount |-> checked.totalAmount, status |-> "pending",
        tracking_number |-> trackingNumber, fraud_risk |-> fraud.fraud_risk,
        fraud_reasons |-> JSONStringify(fraud.fraud_reasons)] >>
    \o PerLineWrites(checked.productUpdates, 1, orderId, userId)
    \o << [op |-> "insertShipment", order_id |-> orderId, tracking_number |-> trackingNumber,
           status |-> "pending"],
          [op |-> "deleteCart", user_id |-> userId] >>

\* a column that takes any value again
UniqueNeverViolated(rows, tracking_number) == FALSE

\* tracking_number TEXT UNIQUE: the INSERT throws when a row holds the value
UniqueViolated(rows, tracking_number) ==
    \E i \in 1..Len(rows) : rows[i].tracking_number = tracking_number

\* One statement against the tables d: the tables after it and the error it throws
Run(s, d) ==
    CASE s.op = "selectHistory" -> [db |-> d, error |-> NoError]
      [] s.op = "insertOrder" ->
           IF UniqueViolated(d.orders, s.tracking_number)
           THEN [db |-> d, error |-> ErrorOf("unique")]
           ELSE [db |-> [d EXCEPT !.orders = Append(@,
                            [id |-> s.id, user_id |-> s.user_id, total_amount |-> s.total_amount,
                             status |-> s.status, tracking_number |-> s.tracking_number,
                             fraud_risk |-> s.fraud_risk, fraud_reasons |-> s.fraud_reasons])],
                 error |-> NoError]
      [] s.op = "insertOrderItem" ->
           [db |-> [d EXCEPT !.order_items = Append(@,
                      [order_id |-> s.order_id, product_id |-> s.product_id,
                       quantity |-> s.quantity, price |-> s.price])],
            error |-> NoError]
      [] s.op = "updateStock" ->
           [db |-> [d EXCEPT !.products[s.product_id].stock_quantity = s.stock_quantity],
            error |-> NoError]
      [] s.op = "insertTransaction" ->
           [db |-> [d EXCEPT !.inventory_transactions = Append(@,
                      [product_id |-> s.product_id, type |-> s.type, quantity |-> s.quantity,
                       previous_quantity |-> s.previous_quantity,
                       new_quantity |-> s.new_quantity, order_id |-> s.order_id,
                       created_by |-> s.created_by])],
            error |-> NoError]
      [] s.op = "insertShipment" ->
           IF UniqueViolated(d.shipments, s.tracking_number)
           THEN [db |-> d, error |-> ErrorOf("unique")]
           ELSE [db |-> [d EXCEPT !.shipments = Append(@,
                            [order_id |-> s.order_id, tracking_number |-> s.tracking_number,
                             status |-> s.status])],
                 error |-> NoError]
      [] s.op = "deleteCart" ->
           [db |-> [d EXCEPT !.cart_items = DeleteCart(@, s.user_id)], error |-> NoError]

\* The statements run one after the other until one throws.  fault = k > 0 makes
\* the k-th statement throw a storage error (SQLITE_BUSY, SQLITE_IOERR, SQLITE_FULL).
RECURSIVE RunStatements(_, _, _, _)
RunStatements(stmts, i, d, fault) ==
    IF i > Len(stmts) THEN [db |-> d, error |-> NoError, failedAt |-> ""]
    ELSE IF fault = i
         THEN [db |-> d, error |-> ErrorOf("storage"), failedAt |-> stmts[i].op]
         ELSE LET r == Run(stmts[i], d)
              IN  IF r.error.kind # "none"
                  THEN [db |-> d, error |-> r.error, failedAt |-> stmts[i].op]
                  ELSE RunStatements(stmts, i + 1, r.db, fault)

\* the statements run one by one with no transaction around them
TransactionWithoutRollback(before, result) == result.db

\* db.transaction(fn)(): BEGIN, run fn, COMMIT; ROLLBACK and rethrow when fn throws
Transaction(before, result) ==
    IF result.error.kind = "none" THEN result.db ELSE before

----------------------------------------------------------------------------
(* POST /api/user/orders: the broadcast after the commit *)

NoEvent == [event |-> "", orderId |-> 0, productId |-> 0, userId |-> 0, stock_quantity |-> 0,
            shipmentId |-> 0, status |-> "", fraud_reasons |-> [type |-> "undefined"],
            totalUsers |-> 0, onlineUsers |-> 0]

\* io.emit(event, payload): every connected client is sent the event
IoEmit(connected, events) ==
    {[socketId |-> c.socketId, userId |-> c.userId, event |-> events[i]] :
        c \in connected, i \in 1..Len(events)}

RECURSIVE PerLineBroadcast(_, _)
PerLineBroadcast(productUpdates, i) ==
    IF i > Len(productUpdates) THEN << >>
    ELSE << [op |-> "selectProduct", productId |-> productUpdates[i].productId],
            [op |-> "emit", event |-> "inventory_changed",
             productId |-> productUpdates[i].productId] >>
         \o PerLineBroadcast(productUpdates, i + 1)

\* the product events first, the order event after them
BroadcastStepsInventoryFirst(userId, orderId, productUpdates) ==
    << [op |-> "selectOrder", orderId |-> orderId] >>
    \o PerLineBroadcast(productUpdates, 1)
    \o << [op |-> "emit", event |-> "order_created", orderId |-> orderId],
          [op |-> "emit", event |-> "cart_updated", userId |-> userId] >>

\* io.emit('order_created'), then one io.emit('inventory_changed') per entry of
\* productUpdates, then io.emit('cart_updated')
BroadcastSteps(userId, orderId, productUpdates) ==
    << [op |-> "selectOrder", orderId |-> orderId],
       [op |-> "emit", event |-> "order_created", orderId |-> orderId] >>
    \o PerLineBroadcast(productUpdates, 1)
    \o << [op |-> "emit", event |-> "cart_updated", userId |-> userId] >>

\* The payload of one io.emit, read from the committed tables d
Payload(s, d, orderId) ==
    CASE s.event = "order_created" ->
           [NoEvent EXCEPT !.event = "order_created", !.orderId = s.orderId,
                           !.userId = d.orders[s.orderId].user_id,
                           !.fraud_reasons = JSONParse(d.orders[s.orderId].fraud_reasons)]
      [] s.event = "inventory_changed" ->
           [NoEvent EXCEPT !.event = "inventory_changed", !.orderId = orderId,
                           !.productId = s.productId,
                           !.stock_quantity = d.products[s.productId].stock_quantity]
      [] s.event = "cart_updated" ->
           [NoEvent EXCEPT !.event = "cart_updated", !.orderId = orderId, !.userId = s.userId]

\* The steps run in order; fault = k > 0 makes the k-th step throw: a SELECT a
\* storage error, an emit a transport error.  Nothing of it is inside a try of
\* its own, so the throw leaves the rest of the steps undone.
RECURSIVE RunBroadcast(_, _, _, _, _, _)
RunBroadcast(steps, i, d, orderId, fault, out) ==
    IF i > Len(steps) THEN [emitted |-> out, error |-> NoError, failedAt |-> ""]
    ELSE IF fault = i
         THEN [emitted |-> out,
               error |-> ErrorOf(IF steps[i].op = "emit" THEN "emit" ELSE "storage"),
               failedAt |-> steps[i].op]
         ELSE RunBroadcast(steps, i + 1, d, orderId, fault,
                           IF steps[i].op = "emit"
                           THEN Append(out, Payload(steps[i], d, orderId)) ELSE out)

----------------------------------------------------------------------------
(* POST /api/user/orders: the handler *)

\* try { transactionResult = db.transaction(...)(); broadcast; res.status(201) }
\* catch (error) { res.status(statusCode).json({ error: error.message }) }
OrderOutcome(d, userId, items, trackingNumber, fault) ==
    LET checked == CheckedItems(d, items)
        orderId == Len(d.orders) + 1
        history == UserHistory(d, userId)
        fraud   == detectFraudRisk(OrderData(checked.totalAmount, items), history)
        stmts   == TransactionStatements(userId, checked, fraud, trackingNumber, orderId)
        scored  == checked.error.kind = "none" /\ fault # 1
        result  == IF checked.error.kind # "none"
                   THEN [db |-> d, error |-> checked.error, failedAt |-> "stockCheck"]
                   ELSE RunStatements(stmts, 1, d, fault)
        after   == Transaction(d, result)
        steps   == BroadcastSteps(userId, orderId, checked.productUpdates)
        sent    == IF result.error.kind = "none"
                   THEN RunBroadcast(steps, 1, after, orderId, fault - Len(stmts), << >>)
                   ELSE [emitted |-> << >>, error |-> NoError, failedAt |-> ""]
        thrown  == IF result.error.kind # "none" THEN result.error ELSE sent.error
    IN  [db |-> after,
         emitted |-> sent.emitted,
         orderData |-> IF scored THEN fraud.orderData ELSE NoOrderData,
         userHistory |-> IF scored THEN fraud.userHistory ELSE NoHistory,
         evaluations |-> IF scored THEN << fraud >> ELSE << >>,
         resp |-> IF thrown.kind = "none"
                  THEN [NoResponse EXCEPT !.op = "placeOrder", !.user = userId, !.items = items,
                                          !.status = 201, !.orderId = orderId,
                                          !.trackingNumber = trackingNumber,
                                          !.totalAmount = checked.totalAmount,
                                          !.fraudRisk = fraud.fraud_risk,
                                          !.fraudReasons = fraud.fraud_reasons]
                  ELSE [NoResponse EXCEPT !.op = "placeOrder", !.user = userId, !.items = items,
                                          !.status = StatusCode(thrown), !.error = thrown,
                                          !.phase = IF checked.error.kind # "none" THEN "stockCheck"
                                                    ELSE IF result.error.kind # "none"
                                                         THEN "transaction" ELSE "broadcast",
                                          !.failedAt = IF result.error.kind # "none"
                                                       THEN result.failedAt
                                                       ELSE sent.failedAt]]

\* The statements of one request that a fault can hit: those of the transaction
\* and, after them, the steps of the broadcast
FaultPoints(d, userId, items) ==
    LET checked == CheckedItems(d, items)
    IN  IF checked.error.kind # "none" THEN {0}
        ELSE 0..(Len(TransactionStatements(userId, checked,
                                           detectFraudRisk(NoOrderData, NoHistory), "", 0))
                 + Len(BroadcastSteps(userId, 0, checked.productUpdates)))

PlaceOrder(userId, items, trackingNumber, fault) ==
    /\ handled < MaxRequests
    /\ pre' = db
    /\ handled' = handled + 1
    /\ fault # 0 => ~faulted
    /\ faulted' = (faulted \/ fault # 0)
    /\ UNCHANGED <<adjusted, sockets,
                 connectedUsers>>
    /\ IF ~CreateOrderSchemaValid(items)
       THEN \* validateRequest(schemas.createOrder) answers 400 before the handler runs
            /\ fault = 0
            /\ resp' = [NoResponse EXCEPT !.op = "placeOrder", !.user = userId,
                                          !.items = items, !.status = 400,
                                          !.error = ErrorOf("validation"),
                                          !.phase = "validation"]
            /\ emitted' = << >>
            /\ orderData' = NoOrderData
            /\ userHistory' = NoHistory
            /\ evaluations' = << >>
            /\ UNCHANGED db
       ELSE /\ fault \in FaultPoints(db, userId, items)
            /\ \E out \in {OrderOutcome(db, userId, items, trackingNumber, fault)} :
                /\ db' = out.db
                /\ emitted' = out.emitted
                /\ resp' = out.resp
                /\ orderData' = out.orderData
                /\ userHistory' = out.userHistory
                /\ evaluations' = out.evaluations
    /\ received' = IoEmit(sockets, emitted')
    /\ client' = Respond(client, resp', emitted')

----------------------------------------------------------------------------
(* POST /api/user/cart/items *)

\* the quantity asked put in place of what the line holds
NewQuantityReplacing(existing, quantity) == quantity

\* the quantity asked taken off what the line holds
NewQuantityDecrementing(existing, quantity) == existing - quantity

\* const newQuantity = existingCartItem.quantity + quantity
NewQuantity(existing, quantity) == existing + quantity

AddToCart(userId, productId, quantity) ==
    /\ handled < MaxRequests
    /\ pre' = db
    /\ handled' = handled + 1
    /\ emitted' = << >>
    /\ received' = {}
    /\ UNCHANGED <<adjusted, faulted, orderData, userHistory, evaluations, sockets,
                 connectedUsers>>
    /\ LET answer(status, kind) ==
               [NoResponse EXCEPT !.op = "addToCart", !.user = userId, !.status = status,
                                  !.items = << [productId |-> productId, quantity |-> quantity] >>,
                                  !.error = ErrorOf(kind)]
       IN  IF quantity < 1
           THEN \* validateRequest(schemas.addToCart): quantity min(1)
                resp' = answer(400, "validation") /\ UNCHANGED db
           ELSE IF productId \notin DOMAIN db.products
           THEN resp' = answer(404, "not_found") /\ UNCHANGED db
           ELSE LET product == db.products[productId]
                    existingCartItem == SelectCartItem(db.cart_items, userId, productId)
                IN  IF product.stock_quantity = 0
                    THEN resp' = answer(400, "out_of_stock") /\ UNCHANGED db
                    ELSE IF quantity <= 0
                    THEN resp' = answer(400, "validation") /\ UNCHANGED db
                    ELSE IF existingCartItem # {}
                    THEN LET existing == CHOOSE row \in existingCartItem : TRUE
                             newQuantity == NewQuantity(existing.quantity, quantity)
                         IN  IF newQuantity > product.stock_quantity
                             THEN resp' = answer(400, "insufficient_stock") /\ UNCHANGED db
                             ELSE /\ db' = [db EXCEPT !.cart_items =
                                               UpdateCartItemStatement(@, userId, productId,
                                                                       newQuantity).cart_items]
                                  /\ resp' = answer(200, "none")
                    ELSE IF quantity > product.stock_quantity
                         THEN resp' = answer(400, "insufficient_stock") /\ UNCHANGED db
                         ELSE LET result == InsertCartItem(db.cart_items, userId, productId,
                                                           quantity)
                              IN  IF result.error.kind # "none"
                                  THEN resp' = answer(500, result.error.kind) /\ UNCHANGED db
                                  ELSE /\ db' = [db EXCEPT !.cart_items = result.cart_items]
                                       /\ resp' = answer(201, "none")
    /\ client' = Respond(client, resp', emitted')

\* PUT /api/user/cart/items/:productId
UpdateCartItem(userId, productId, quantity) ==
    /\ handled < MaxRequests
    /\ pre' = db
    /\ handled' = handled + 1
    /\ emitted' = << >>
    /\ received' = {}
    /\ UNCHANGED <<adjusted, faulted, orderData, userHistory, evaluations, sockets,
                 connectedUsers>>
    /\ LET answer(status, kind) ==
               [NoResponse EXCEPT !.op = "updateCartItem", !.user = userId, !.status = status,
                                  !.items = << [productId |-> productId, quantity |-> quantity] >>,
                                  !.error = ErrorOf(kind)]
       IN  IF quantity < 0
           THEN \* validateRequest(schemas.updateCartItem): quantity min(0)
                resp' = answer(400, "validation") /\ UNCHANGED db
           ELSE IF productId \notin DOMAIN db.products
           THEN resp' = answer(404, "not_found") /\ UNCHANGED db
           ELSE IF quantity <= 0
           THEN /\ db' = [db EXCEPT !.cart_items =
                             DeleteCartItem(@, userId, productId).cart_items]
                /\ resp' = answer(200, "none")
           ELSE IF quantity > db.products[productId].stock_quantity
           THEN resp' = answer(400, "insufficient_stock") /\ UNCHANGED db
           ELSE LET result == UpdateCartItemStatement(db.cart_items, userId, productId, quantity)
                IN  IF result.changes = 0
                    THEN resp' = answer(404, "cart_item_not_found") /\ UNCHANGED db
                    ELSE /\ db' = [db EXCEPT !.cart_items = result.cart_items]
                         /\ resp' = answer(200, "none")
    /\ client' = Respond(client, resp', emitted')

\* DELETE /api/user/cart/items/:productId
RemoveCartItem(userId, productId) ==
    /\ handled < MaxRequests
    /\ pre' = db
    /\ handled' = handled + 1
    /\ emitted' = << >>
    /\ received' = {}
    /\ UNCHANGED <<adjusted, faulted, orderData, userHistory, evaluations, sockets,
                 connectedUsers>>
    /\ LET answer(status, kind) ==
               [NoResponse EXCEPT !.op = "removeCartItem", !.user = userId, !.status = status,
                                  !.items = << [productId |-> productId, quantity |-> 0] >>,
                                  !.error = ErrorOf(kind)]
           result == DeleteCartItem(db.cart_items, userId, productId)
       IN  IF result.changes = 0
           THEN resp' = answer(404, "cart_item_not_found") /\ UNCHANGED db
           ELSE /\ db' = [db EXCEPT !.cart_items = result.cart_items]
                /\ resp' = answer(200, "none")
    /\ client' = Respond(client, resp', emitted')

\* DELETE /api/user/cart
ClearCart(userId) ==
    /\ handled < MaxRequests
    /\ pre' = db
    /\ handled' = handled + 1
    /\ emitted' = << >>
    /\ received' = {}
    /\ UNCHANGED <<adjusted, faulted, orderData, userHistory, evaluations, sockets,
                 connectedUsers>>
    /\ db' = [db EXCEPT !.cart_items = DeleteCart(@, userId)]
    /\ resp' = [NoResponse EXCEPT !.op = "clearCart", !.user = userId, !.status = 200]
    /\ client' = Respond(client, resp', emitted')

----------------------------------------------------------------------------
(* Admin stock commands *)

AdminQuantities == {-1, 4}

\* PUT /api/admin/products/:id/stock
PutProductStock(id, stock_quantity) ==
    /\ handled < MaxRequests
    /\ pre' = db
    /\ handled' = handled + 1
    /\ UNCHANGED <<faulted, orderData, userHistory, evaluations, sockets,
                 connectedUsers, client>>
    /\ LET answer(status, kind) ==
               [NoResponse EXCEPT !.op = "putProductStock", !.user = AdminId, !.status = status,
                                  !.items = << [productId |-> id, quantity |-> stock_quantity] >>,
                                  !.error = ErrorOf(kind)]
       IN  IF stock_quantity < 0
           THEN /\ resp' = answer(400, "validation")
                /\ emitted' = << >>
                /\ UNCHANGED <<db, adjusted>>
           ELSE IF id \notin DOMAIN db.products
           THEN /\ resp' = answer(404, "not_found")
                /\ emitted' = << >>
                /\ UNCHANGED <<db, adjusted>>
           ELSE /\ db' = [db EXCEPT !.products[id].stock_quantity = stock_quantity]
                /\ adjusted' = adjusted \cup {id}
                /\ emitted' = << [NoEvent EXCEPT !.event = "inventory_changed",
                                                 !.productId = id,
                                                 !.stock_quantity = stock_quantity] >>
                /\ resp' = answer(200, "none")
    /\ received' = IoEmit(sockets, emitted')

\* socket.on('inventory_update')
InventoryUpdate(userRole, productId, quantity) ==
    /\ handled < MaxRequests
    /\ pre' = db
    /\ handled' = handled + 1
    /\ UNCHANGED <<faulted, orderData, userHistory, evaluations, sockets,
                 connectedUsers, client>>
    /\ LET answer(message, kind) ==
               [NoResponse EXCEPT !.op = "inventory_update", !.user = AdminId,
                                  !.items = << [productId |-> productId, quantity |-> quantity] >>,
                                  !.reply = message, !.error = ErrorOf(kind)]
       IN  IF userRole # "admin"
           THEN /\ resp' = [NoResponse EXCEPT !.op = "inventory_update"]
                /\ emitted' = << >>
                /\ UNCHANGED <<db, adjusted>>
           ELSE IF productId \notin DOMAIN db.products
           THEN /\ resp' = answer("error", "not_found")
                /\ emitted' = << >>
                /\ UNCHANGED <<db, adjusted>>
           ELSE LET current == db.products[productId].stock_quantity
                    changeQuantity == quantity - current
                IN  /\ db' = [db EXCEPT
                               !.products[productId].stock_quantity = quantity,
                               !.inventory_transactions = Append(@,
                                   [product_id |-> productId,
                                    type |-> IF changeQuantity > 0 THEN "restock"
                                             ELSE "adjustment",
                                    quantity |-> changeQuantity,
                                    previous_quantity |-> current,
                                    new_quantity |-> quantity, order_id |-> 0,
                                    created_by |-> AdminId])]
                    /\ adjusted' = adjusted \cup {productId}
                    /\ emitted' = << [NoEvent EXCEPT !.event = "inventory_updated",
                                                     !.productId = productId,
                                                     !.stock_quantity = quantity] >>
                    /\ resp' = answer("inventory_update_success", "none")
    /\ received' = IoEmit(sockets, emitted')

----------------------------------------------------------------------------
(* Admin status commands *)

\* const validStatuses of PUT /orders/:id/status and of 'update_order_status'
ValidOrderStatuses == {"pending", "processing", "shipped", "delivered", "cancelled"}

\* const validStatuses of PUT /shipments/:id/status
ValidShipmentStatuses ==
    {"pending", "in_transit", "out_for_delivery", "delivered", "failed_attempt", "cancelled"}

\* const validStatuses of 'update_shipment_status'
ValidSocketShipmentStatuses ==
    {"pending", "started", "picked", "placed", "sent", "received", "inspected", "completed"}

\* UPDATE orders SET status = ? WHERE id = ?, and UPDATE shipments SET status = ?
\* WHERE id = ?: the row of that id, whatever its status is
UpdateStatusStatement(rows, id, status) ==
    IF id \in 1..Len(rows)
    THEN [changes |-> 1, rows |-> [rows EXCEPT ![id].status = status]]
    ELSE [changes |-> 0, rows |-> rows]

\* PUT /api/admin/orders/:id/status
PutOrderStatus(id, status) ==
    /\ handled < MaxRequests
    /\ pre' = db
    /\ handled' = handled + 1
    /\ UNCHANGED <<adjusted, faulted, orderData, userHistory, evaluations, sockets,
                 connectedUsers, client>>
    /\ LET answer(code, kind) ==
               [NoResponse EXCEPT !.op = "putOrderStatus", !.user = AdminId, !.status = code,
                                  !.orderId = id, !.error = ErrorOf(kind)]
           result == UpdateStatusStatement(db.orders, id, status)
       IN  IF status \notin ValidOrderStatuses
           THEN /\ resp' = answer(400, "validation")
                /\ emitted' = << >>
                /\ UNCHANGED db
           ELSE IF result.changes = 0
           THEN /\ resp' = answer(404, "not_found")
                /\ emitted' = << >>
                /\ UNCHANGED db
           ELSE /\ db' = [db EXCEPT !.orders = result.rows]
                /\ emitted' = << [NoEvent EXCEPT !.event = "order_status_updated",
                                                 !.orderId = id,
                                                 !.userId = db.orders[id].user_id,
                                                 !.status = status] >>
                /\ resp' = answer(200, "none")
    /\ received' = IoEmit(sockets, emitted')

\* socket.on('update_order_status')
UpdateOrderStatus(userRole, orderId, status) ==
    /\ handled < MaxRequests
    /\ pre' = db
    /\ handled' = handled + 1
    /\ UNCHANGED <<adjusted, faulted, orderData, userHistory, evaluations, sockets,
                 connectedUsers, client>>
    /\ LET answer(message, kind) ==
               [NoResponse EXCEPT !.op = "update_order_status", !.user = AdminId,
                                  !.orderId = orderId, !.reply = message,
                                  !.error = ErrorOf(kind)]
           result == UpdateStatusStatement(db.orders, orderId, status)
       IN  IF userRole # "admin"
           THEN /\ resp' = [NoResponse EXCEPT !.op = "update_order_status"]
                /\ emitted' = << >>
                /\ UNCHANGED db
           ELSE IF status \notin ValidOrderStatuses
           THEN /\ resp' = answer("error", "validation")
                /\ emitted' = << >>
                /\ UNCHANGED db
           ELSE IF result.changes = 0
           THEN /\ resp' = answer("error", "not_found")
                /\ emitted' = << >>
                /\ UNCHANGED db
           ELSE /\ db' = [db EXCEPT !.orders = result.rows]
                /\ emitted' = << [NoEvent EXCEPT !.event = "order_status_updated",
                                                 !.orderId = orderId,
                                                 !.userId = db.orders[orderId].user_id,
                                                 !.status = status] >>
                /\ resp' = answer("order_status_update_success", "none")
    /\ received' = IoEmit(sockets, emitted')

\* PUT /api/admin/shipments/:id/status
PutShipmentStatus(id, status) ==
    /\ handled < MaxRequests
    /\ pre' = db
    /\ handled' = handled + 1
    /\ UNCHANGED <<adjusted, faulted, orderData, userHistory, evaluations, sockets,
                 connectedUsers, client>>
    /\ LET answer(code, kind) ==
               [NoResponse EXCEPT !.op = "putShipmentStatus", !.user = AdminId,
                                  !.status = code, !.error = ErrorOf(kind)]
           result == UpdateStatusStatement(db.shipments, id, status)
       IN  IF status \notin ValidShipmentStatuses
           THEN /\ resp' = answer(400, "validation")
                /\ emitted' = << >>
                /\ UNCHANGED db
           ELSE IF result.changes = 0
           THEN /\ resp' = answer(404, "not_found")
                /\ emitted' = << >>
                /\ UNCHANGED db
           ELSE /\ db' = [db EXCEPT !.shipments = result.rows]
                /\ emitted' = << [NoEvent EXCEPT
                                     !.event = "shipment_status_updated",
                                     !.shipmentId = id,
                                     !.orderId = db.shipments[id].order_id,
                                     !.userId = db.orders[db.shipments[id].order_id].user_id,
                                     !.status = status] >>
                /\ resp' = [answer(200, "none") EXCEPT
                               !.orderId = db.shipments[id].order_id,
                               !.trackingNumber = db.shipments[id].tracking_number]
    /\ received' = IoEmit(sockets, emitted')

\* socket.on('update_shipment_status')
UpdateShipmentStatus(userRole, shipmentId, status) ==
    /\ handled < MaxRequests
    /\ pre' = db
    /\ handled' = handled + 1
    /\ UNCHANGED <<adjusted, faulted, orderData, userHistory, evaluations, sockets,
                 connectedUsers, client>>
    /\ LET answer(message, kind) ==
               [NoResponse EXCEPT !.op = "update_shipment_status", !.user = AdminId,
                                  !.reply = message, !.error = ErrorOf(kind)]
           result == UpdateStatusStatement(db.shipments, shipmentId, status)
       IN  IF userRole # "admin"
           THEN /\ resp' = [NoResponse EXCEPT !.op = "update_shipment_status"]
                /\ emitted' = << >>
                /\ UNCHANGED db
           ELSE IF status \notin ValidSocketShipmentStatuses
           THEN /\ resp' = answer("error", "validation")
                /\ emitted' = << >>
                /\ UNCHANGED db
           ELSE IF result.changes = 0
           THEN /\ resp' = answer("error", "not_found")
                /\ emitted' = << >>
                /\ UNCHANGED db
           ELSE /\ db' = [db EXCEPT !.shipments = result.rows]
                /\ emitted' = << [NoEvent EXCEPT
                                     !.event = "shipment_status_updated",
                                     !.shipmentId = shipmentId,
                                     !.orderId = db.shipments[shipmentId].order_id,
                                     !.userId =
                                         db.orders[db.shipments[shipmentId].order_id].user_id,
                                     !.status = status] >>
                /\ resp' = answer("shipment_status_update_success", "none")
    /\ received' = IoEmit(sockets, emitted')

----------------------------------------------------------------------------
(* Authentication and roles *)

\* the users table: the admin and the customers, role IN ('user', 'admin')
Users ==
    [id \in {AdminId} \cup Customers |->
        [id |-> id, role |-> IF id = AdminId THEN "admin" ELSE "user"]]

DeletedUserId == 4      \* a token was signed for it, the users table has no such row

NoUser == [id |-> 0, role |-> ""]

\* what a request or a handshake carries: no token, a token jwt.verify rejects,
\* or a token jwt.verify decodes to an id
Tokens ==
    {[present |-> FALSE, verified |-> FALSE, id |-> 0],
     [present |-> TRUE, verified |-> FALSE, id |-> 0]}
        \cup {[present |-> TRUE, verified |-> TRUE, id |-> id] :
                 id \in DOMAIN Users \cup {DeletedUserId}}

\* authenticateToken: the status it answers, 0 when it calls next(), and req.user
authenticateToken(token) ==
    IF ~token.present THEN [status |-> 401, user |-> NoUser]
    ELSE IF ~token.verified THEN [status |-> 403, user |-> NoUser]
    ELSE IF token.id \notin DOMAIN Users THEN [status |-> 401, user |-> NoUser]
    ELSE [status |-> 0, user |-> Users[token.id]]

\* every user that is authenticated is let through
requireRoleOfAnyUser(roles, user) ==
    IF user = NoUser THEN 401 ELSE 0

\* requireRole(roles): the status it answers, 0 when it calls next()
requireRole(roles, user) ==
    IF user = NoUser THEN 401
    ELSE IF user.role \notin roles THEN 403
    ELSE 0

\* router.use(authenticateToken); router.use(requireRole(roles))
RouterUse(roles, token) ==
    LET authenticated == authenticateToken(token)
    IN  IF authenticated.status # 0 THEN authenticated
        ELSE [status |-> requireRole(roles, authenticated.user),
              user |-> authenticated.user]

requireAdmin(token) == RouterUse({"admin"}, token)

requireUser(token) == RouterUse({"user", "admin"}, token)

\* io.use: the handshake's error, "" when it calls next(), and the socket's user
SocketAuth(token) ==
    IF ~token.present \/ ~token.verified
    THEN [error |-> "Authentication error", user |-> NoUser]
    ELSE IF token.id \notin DOMAIN Users
    THEN [error |-> "User not found", user |-> NoUser]
    ELSE [error |-> "", user |-> Users[token.id]]

\* new Map()
NoConnectedUsers == [userId \in {} |-> NoUser]

\* a middleware answers the request, the route's handler is not called
Refused(op, status) ==
    /\ handled < MaxRequests
    /\ pre' = db
    /\ handled' = handled + 1
    /\ resp' = [NoResponse EXCEPT !.op = op, !.status = status, !.error = ErrorOf("auth")]
    /\ emitted' = << >>
    /\ received' = {}
    /\ UNCHANGED <<db, adjusted, faulted, orderData, userHistory, evaluations, sockets,
                 connectedUsers, client>>

\* io.use refuses the handshake: no socket, no handler is registered for it
HandshakeRefused(error) ==
    /\ handled < MaxRequests
    /\ pre' = db
    /\ handled' = handled + 1
    /\ resp' = [NoResponse EXCEPT !.op = "connection", !.reply = error,
                                  !.error = ErrorOf("auth")]
    /\ emitted' = << >>
    /\ received' = {}
    /\ UNCHANGED <<db, adjusted, faulted, orderData, userHistory, evaluations, sockets,
                 connectedUsers, client>>

----------------------------------------------------------------------------
(* The system *)

Init ==
    /\ db = InitialDb
    /\ pre = InitialDb
    /\ resp = NoResponse
    /\ emitted = << >>
    /\ adjusted = {}
    /\ handled = 0
    /\ faulted = FALSE
    /\ orderData = NoOrderData
    /\ userHistory = NoHistory
    /\ evaluations = << >>
    /\ sockets = {}
    /\ connectedUsers = NoConnectedUsers
    /\ client = NoClient
    /\ received = {}

\* The longest request has two lines: 4 + 3 * 2 statements and 3 + 2 * 2 steps
FaultPointRange == 0..(10 + 7)

Next ==
    \/ \E userId \in Customers, items \in ItemLists, trackingNumber \in TrackingNumbers,
          fault \in FaultPointRange :
          PlaceOrder(userId, items, trackingNumber, fault)
    \/ \E userId \in Customers, productId \in RequestedProductIds, quantity \in Quantities :
          AddToCart(userId, productId, quantity)
    \/ \E id \in RequestedProductIds, stock_quantity \in AdminQuantities :
          PutProductStock(id, stock_quantity)
    \/ \E userRole \in {"admin", "user"}, productId \in RequestedProductIds,
          quantity \in AdminQuantities :
          InventoryUpdate(userRole, productId, quantity)

Spec == Init /\ [][Next]_vars

----------------------------------------------------------------------------
(* detectFraudRisk on its own, called on arguments of every kind *)

\* total_amount in cents, around the two thresholds, and what is not a number
TotalAmounts ==
    {[type |-> "number", value |-> n] : n \in {0, 50000, 50001, 100000, 100001}}
    \cup {[type |-> "numericString", value |-> 150000],
          [type |-> "text", value |-> 0],
          [type |-> "undefined", value |-> 0],
          [type |-> "null", value |-> 0]}

ItemsInputs ==
    {[type |-> "undefined", elements |-> << >>],
     [type |-> "object", elements |-> << >>],
     [type |-> "array", elements |-> << >>],
     [type |-> "array", elements |-> << [name |-> "Quantum Laptop", price |-> 30001,
                                         quantity |-> 4] >>],
     [type |-> "array", elements |-> << [name |-> "Quantum Laptop", price |-> 30000,
                                         quantity |-> 4] >>],
     [type |-> "array", elements |-> << [name |-> "Quantum Laptop", price |-> 30001,
                                         quantity |-> 3] >>],
     [type |-> "array", elements |-> << [productId |-> 1, quantity |-> 4] >>],
     [type |-> "array", elements |-> << [name |-> "Ergo-Comfort Mouse", price |-> 4999,
                                         quantity |-> 4],
                                        [name |-> "4K Ultra-HD Monitor", price |-> 34999,
                                         quantity |-> 5] >>]}

HistoryInputs ==
    {[type |-> "undefined", total_orders |-> 0, total_spent |-> 0],
     [type |-> "null", total_orders |-> 0, total_spent |-> 0],
     [type |-> "object", total_orders |-> 0, total_spent |-> 0],
     [type |-> "object", total_orders |-> 1, total_spent |-> 34999]}

FraudInit ==
    /\ orderData \in [total_amount : TotalAmounts, items : ItemsInputs]
    /\ userHistory \in HistoryInputs
    /\ evaluations = << >>
    /\ db = InitialDb
    /\ pre = InitialDb
    /\ resp = NoResponse
    /\ emitted = << >>
    /\ adjusted = {}
    /\ handled = 0
    /\ faulted = FALSE
    /\ sockets = {}
    /\ connectedUsers = NoConnectedUsers
    /\ client = NoClient
    /\ received = {}

\* const { fraud_risk, fraud_reasons } = detectFraudRisk(orderData, userHistory)
Evaluate ==
    /\ Len(evaluations) < MaxEvaluations
    /\ LET out == detectFraudRisk(orderData, userHistory)
       IN  /\ evaluations' = Append(evaluations, out)
           /\ orderData' = out.orderData
           /\ userHistory' = out.userHistory
    /\ UNCHANGED <<db, pre, resp, emitted, adjusted, handled, faulted, sockets, received,
                 connectedUsers, client>>

FraudNext == Evaluate

FraudSpec == FraudInit /\ [][FraudNext]_vars

----------------------------------------------------------------------------
(* What the last request did *)

IsOrder == resp.op = "placeOrder"

OrderCommitted == IsOrder /\ Len(db.orders) = Len(pre.orders) + 1

AppendedTransactions ==
    SubSeq(db.inventory_transactions, Len(pre.inventory_transactions) + 1,
           Len(db.inventory_transactions))

EmittedCount(event) == Cardinality({i \in 1..Len(emitted) : emitted[i].event = event})

RECURSIVE SoldQuantity(_, _, _)
SoldQuantity(rows, productId, i) ==
    IF i > Len(rows) THEN 0
    ELSE (IF rows[i].type = "sale" /\ rows[i].product_id = productId
          THEN 0 - rows[i].quantity ELSE 0)
         + SoldQuantity(rows, productId, i + 1)

RECURSIVE RequestedQuantity(_, _, _)
RequestedQuantity(items, productId, i) ==
    IF i > Len(items) THEN 0
    ELSE (IF items[i].productId = productId THEN items[i].quantity ELSE 0)
         + RequestedQuantity(items, productId, i + 1)

----------------------------------------------------------------------------
\* C1: for a product that is never restocked, the quantities of its committed
\* 'sale' rows never add up to more than its initial stock, and a request that
\* asks for more of a product than is left does not go through.
C1_NoOversell ==
    /\ \A p \in ProductIds :
          p \notin adjusted =>
              SoldQuantity(db.inventory_transactions, p, 1) <= InitialStock[p]
    /\ IsOrder =>
          \A p \in ProductIds :
              RequestedQuantity(resp.items, p, 1) > pre.products[p].stock_quantity
                  => resp.status = 400

\* C2: a place-order request that throws inside the transaction after the stock
\* check has passed leaves every table (products, inventory_transactions, orders,
\* order_items, shipments, cart_items) as it was, and emits nothing.
C2_Atomicity ==
    (IsOrder /\ resp.phase = "transaction") => (db = pre /\ emitted = << >>)

\* C2 witness: the last statement of the transaction threw, after the order, its
\* lines, the stock and the shipment had been written, for a customer with a cart
C2_Witness ==
    /\ IsOrder
    /\ resp.phase = "transaction"
    /\ resp.failedAt = "deleteCart"
    /\ Len(resp.items) = 2
    /\ CartOf(pre.cart_items, resp.user) # {}

\* C3: after a place-order request of user U that is answered with success the
\* cart of U is empty, and after one that is answered with an error the cart of U
\* is what it was before.
C3_CartClearsExactlyOnSuccess ==
    IsOrder =>
        IF resp.status = 201
        THEN CartOf(db.cart_items, resp.user) = {}
        ELSE CartOf(db.cart_items, resp.user) = CartOf(pre.cart_items, resp.user)

SingleLineOrder(r, productId) ==
    /\ r.op = "placeOrder"
    /\ Len(r.items) = 1
    /\ r.items[1].productId = productId

NoStorageError(r) == r.error.kind \notin {"unique", "storage", "emit"}

\* C4: two place-order requests handled one after the other, each of one line for
\* the same product with stock S, asking q1 <= S and q2 <= S with q1 + q2 > S, and
\* neither hit by a storage or transport error: the one handled first succeeds,
\* the other is answered 400 insufficient stock, exactly one order is added and
\* the stock ends at S minus the first quantity, not below zero.
C4_ScenarioB ==
    [][\A p \in ProductIds :
          (/\ handled' = handled + 1
           /\ SingleLineOrder(resp, p)
           /\ SingleLineOrder(resp', p)
           /\ resp.items[1].quantity <= pre.products[p].stock_quantity
           /\ resp'.items[1].quantity <= pre.products[p].stock_quantity
           /\ resp.items[1].quantity + resp'.items[1].quantity
                  > pre.products[p].stock_quantity
           /\ NoStorageError(resp)
           /\ NoStorageError(resp'))
          => (/\ resp.status = 201
              /\ resp'.status = 400
              /\ resp'.error.kind = "insufficient_stock"
              /\ Len(db'.orders) = Len(pre.orders) + 1
              /\ db'.products[p].stock_quantity
                     = pre.products[p].stock_quantity - resp.items[1].quantity
              /\ db'.products[p].stock_quantity >= 0)]_vars

\* C4 witness: the loser of such a pair has just been answered; the winner's
\* one-line order is the last row of orders
C4_Witness ==
    \E p \in ProductIds :
        /\ SingleLineOrder(resp, p)
        /\ resp.status = 400
        /\ resp.error.kind = "insufficient_stock"
        /\ Len(pre.orders) >= 1
        /\ LET won == {i \in 1..Len(pre.order_items) :
                          pre.order_items[i].order_id = Len(pre.orders)}
           IN  /\ Cardinality(won) = 1
               /\ \A i \in won :
                     /\ pre.order_items[i].product_id = p
                     /\ resp.items[1].quantity
                            <= pre.products[p].stock_quantity + pre.order_items[i].quantity
                     /\ resp.error.available = pre.products[p].stock_quantity
        /\ db.orders = pre.orders

\* C5: the stock of every product is at least 0 in every reachable state.
C5_StockNeverNegative ==
    \A p \in ProductIds : db.products[p].stock_quantity >= 0

\* C6: a place-order request is answered 201, 400 or 500, and one answered 400 or
\* 500 has changed no table.
C6_ResponseAgreesWithState ==
    IsOrder =>
        /\ resp.status \in {201, 400, 500}
        /\ resp.status \in {400, 500} => db = pre

\* C7: when a step of the broadcast after the commit throws, the order stays
\* committed and the request is still answered with the success payload.
C7_BroadcastIsBestEffort ==
    (IsOrder /\ resp.phase = "broadcast") =>
        (OrderCommitted /\ resp.status = 201 /\ resp.error = NoError)

BadLine(d, item) ==
    \/ item.productId \notin DOMAIN d.products
    \/ d.products[item.productId].stock_quantity < item.quantity

FirstBadLine(d, items) ==
    CHOOSE i \in 1..Len(items) :
        BadLine(d, items[i]) /\ \A j \in 1..(i - 1) : ~BadLine(d, items[j])

\* C8: a request whose first bad line names a missing product is answered 400
\* not found with that product id; one whose first bad line asks more than the
\* stock is answered 400 insufficient stock with the product's name, the stock
\* and the quantity asked; either way no table has changed.
C8_FailFast ==
    (/\ IsOrder
     /\ resp.phase # "validation"
     /\ \E i \in 1..Len(resp.items) : BadLine(pre, resp.items[i]))
    => LET item == resp.items[FirstBadLine(pre, resp.items)]
       IN  /\ resp.status = 400
           /\ IF item.productId \notin DOMAIN pre.products
              THEN resp.error = [NoError EXCEPT !.kind = "not_found",
                                                !.productId = item.productId]
              ELSE resp.error = [kind |-> "insufficient_stock",
                                 productId |-> item.productId,
                                 name |-> pre.products[item.productId].name,
                                 available |-> pre.products[item.productId].stock_quantity,
                                 requested |-> item.quantity]
           /\ db = pre
           /\ emitted = << >>

\* C8 witness: Scenario C, a valid first line and a missing product on the second
C8_Witness ==
    /\ IsOrder
    /\ Len(resp.items) = 2
    /\ ~BadLine(pre, resp.items[1])
    /\ resp.items[2].productId \notin DOMAIN pre.products
    /\ resp.error.kind = "not_found"

\* C9, as claimed: every 'inventory_changed' event of an order is emitted before
\* its 'order_created' event, and that before its 'cart_updated' event.
C9_InventoryBeforeOrderCreated ==
    IsOrder =>
        \A i, j \in 1..Len(emitted) :
            /\ (emitted[i].event = "inventory_changed" /\ emitted[j].event = "order_created")
                   => i < j
            /\ (emitted[i].event = "order_created" /\ emitted[j].event = "cart_updated")
                   => i < j

\* C9, amended: the 'order_created' event of an order is emitted before each of
\* its 'inventory_changed' events, and each of those before its 'cart_updated'
\* event; a successful order emits all three kinds.
C9_OrderCreatedFirst ==
    IsOrder =>
        /\ \A i, j \in 1..Len(emitted) :
              /\ (emitted[i].event = "order_created"
                      /\ emitted[j].event = "inventory_changed") => i < j
              /\ (emitted[i].event = "inventory_changed"
                      /\ emitted[j].event = "cart_updated") => i < j
              /\ (emitted[i].event = "order_created"
                      /\ emitted[j].event = "cart_updated") => i < j
        /\ resp.status = 201 =>
              /\ EmittedCount("order_created") = 1
              /\ EmittedCount("inventory_changed") >= 1
              /\ EmittedCount("cart_updated") = 1

\* C9 witness: an order of two lines has emitted all of its events
C9_Witness ==
    /\ IsOrder
    /\ resp.status = 201
    /\ EmittedCount("inventory_changed") = 2
    /\ EmittedCount("cart_updated") = 1

\* C10: an order answered with success has appended one 'sale' row per line, each
\* with previous_quantity - ordered quantity = new_quantity and quantity = -ordered
\* quantity, and has emitted one 'order_created' and one 'inventory_changed' per
\* line; an order answered with an error has appended no row and emitted nothing.
C10_RowsAndEvents ==
    IsOrder =>
        IF resp.status = 201
        THEN /\ Len(AppendedTransactions) = Len(resp.items)
             /\ \A i \in 1..Len(AppendedTransactions) :
                   LET row == AppendedTransactions[i]
                   IN  /\ row.type = "sale"
                       /\ row.product_id = resp.items[i].productId
                       /\ row.quantity = 0 - resp.items[i].quantity
                       /\ row.previous_quantity - resp.items[i].quantity = row.new_quantity
             /\ EmittedCount("order_created") = 1
             /\ EmittedCount("inventory_changed") = Len(resp.items)
        ELSE /\ AppendedTransactions = << >>
             /\ emitted = << >>

----------------------------------------------------------------------------
(* The cart routes, with the stock an admin sets *)

AddQuantities == {0, 1, 2}
SetQuantities == {-1, 0, 1, 2}
StockLevels == {0, 2}

CartNext ==
    \/ \E userId \in Customers, productId \in RequestedProductIds, quantity \in AddQuantities :
          AddToCart(userId, productId, quantity)
    \/ \E userId \in Customers, productId \in RequestedProductIds, quantity \in SetQuantities :
          UpdateCartItem(userId, productId, quantity)
    \/ \E userId \in Customers, productId \in RequestedProductIds :
          RemoveCartItem(userId, productId)
    \/ \E userId \in Customers : ClearCart(userId)
    \/ \E id \in ProductIds, stock_quantity \in StockLevels :
          PutProductStock(id, stock_quantity)
    \/ \E userId \in Customers, items \in ItemListsOf(Lines, 1),
          trackingNumber \in TrackingNumbers :
          PlaceOrder(userId, items, trackingNumber, 0)

CartSpec == Init /\ [][CartNext]_vars

----------------------------------------------------------------------------
(* Socket.IO clients connecting and disconnecting while orders are placed *)

SocketIds == {"s1", "s2"}

\* io.to(room).emit(event, payload): the clients that joined the room, each
\* socket joins the room of its role
IoTo(room, connected, events) ==
    IoEmit({c \in connected : Users[c.userId].role = room}, events)

\* { totalUsers: connectedUsers.size, onlineUsers: the entries of role 'user' }
UserCountUpdated(registry) ==
    [NoEvent EXCEPT !.event = "user_count_updated",
                    !.totalUsers = Cardinality(DOMAIN registry),
                    !.onlineUsers =
                        Cardinality({u \in DOMAIN registry : registry[u].userRole = "user"})]

\* connectedUsers.set(socket.userId, {...}): the entry of that user id is replaced
MapSet(registry, userId, entry) ==
    [u \in DOMAIN registry \cup {userId} |-> IF u = userId THEN entry ELSE registry[u]]

\* connectedUsers.delete(socket.userId)
MapDelete(registry, userId) ==
    [u \in DOMAIN registry \ {userId} |-> registry[u]]

\* io.use verifies the token and keeps its user; io.on('connection')
Connect(socketId, userId) ==
    /\ \A c \in sockets : c.socketId # socketId
    /\ sockets' = sockets \cup {[socketId |-> socketId, userId |-> userId]}
    /\ connectedUsers' = MapSet(connectedUsers, userId,
                                [socketId |-> socketId, userId |-> userId,
                                 userRole |-> Users[userId].role])
    /\ pre' = db
    /\ resp' = [NoResponse EXCEPT !.op = "connection", !.user = userId]
    /\ emitted' = << UserCountUpdated(connectedUsers') >>
    /\ received' = IoTo("admin", sockets', emitted')
    /\ UNCHANGED <<db, adjusted, handled, faulted, orderData, userHistory, evaluations,
                 client>>

\* socket.on('disconnect')
Disconnect(socketId) ==
    /\ \E c \in sockets :
          /\ c.socketId = socketId
          /\ sockets' = sockets \ {c}
          /\ connectedUsers' = MapDelete(connectedUsers, c.userId)
          /\ resp' = [NoResponse EXCEPT !.op = "disconnect", !.user = c.userId]
    /\ pre' = db
    /\ emitted' = << UserCountUpdated(connectedUsers') >>
    /\ received' = IoTo("admin", sockets', emitted')
    /\ UNCHANGED <<db, adjusted, handled, faulted, orderData, userHistory, evaluations,
                 client>>

SessionUsers == DOMAIN Users

SessionItemLists == ItemListsOf(Lines, 1)

SessionNext ==
    \/ \E socketId \in SocketIds, userId \in SessionUsers : Connect(socketId, userId)
    \/ \E socketId \in SocketIds : Disconnect(socketId)
    \/ \E userId \in Customers, items \in SessionItemLists,
          trackingNumber \in TrackingNumbers :
          PlaceOrder(userId, items, trackingNumber, 0)

SessionSpec == Init /\ [][SessionNext]_vars

----------------------------------------------------------------------------
(* Orders of several units of an expensive product *)

BulkLines == {[productId |-> 1, quantity |-> 4], [productId |-> 1, quantity |-> 1],
              [productId |-> 2, quantity |-> 1]}

BulkItemLists == ItemListsOf(BulkLines, 2)

\* five Quantum Laptops in stock
BulkInitialDb == [InitialDb EXCEPT !.products[1].stock_quantity = 5]

BulkOrderInit ==
    /\ db = BulkInitialDb
    /\ pre = BulkInitialDb
    /\ resp = NoResponse
    /\ emitted = << >>
    /\ adjusted = {}
    /\ handled = 0
    /\ faulted = FALSE
    /\ orderData = NoOrderData
    /\ userHistory = NoHistory
    /\ evaluations = << >>
    /\ sockets = {}
    /\ connectedUsers = NoConnectedUsers
    /\ client = NoClient
    /\ received = {}

BulkOrderNext ==
    \E userId \in Customers, items \in BulkItemLists, trackingNumber \in TrackingNumbers :
        PlaceOrder(userId, items, trackingNumber, 0)

BulkOrderSpec == BulkOrderInit /\ [][BulkOrderNext]_vars

----------------------------------------------------------------------------
(* The admin routes and socket commands on a database that holds an order *)

\* the tables after the first order of customer 2, two Quantum Laptops
OrderedDb ==
    OrderOutcome(InitialDb, 2, << [productId |-> 1, quantity |-> 2] >>, "TRK-a", 0).db

RowIds == {1, 2}        \* 2 is the id of no orders row and of no shipments row

OrderStatusInputs == ValidOrderStatuses \cup {"refunded"}

ShipmentStatusInputs ==
    ValidShipmentStatuses \cup ValidSocketShipmentStatuses \cup {"lost"}

UserRoles == {"admin", "user"}

AdminInit ==
    /\ db = OrderedDb
    /\ pre = OrderedDb
    /\ resp = NoResponse
    /\ emitted = << >>
    /\ adjusted = {}
    /\ handled = 0
    /\ faulted = FALSE
    /\ orderData = NoOrderData
    /\ userHistory = NoHistory
    /\ evaluations = << >>
    /\ sockets = {}
    /\ connectedUsers = NoConnectedUsers
    /\ client = NoClient
    /\ received = {}

AdminNext ==
    \/ \E id \in RowIds, status \in OrderStatusInputs : PutOrderStatus(id, status)
    \/ \E userRole \in UserRoles, orderId \in RowIds, status \in OrderStatusInputs :
          UpdateOrderStatus(userRole, orderId, status)
    \/ \E id \in RowIds, status \in ShipmentStatusInputs : PutShipmentStatus(id, status)
    \/ \E userRole \in UserRoles, shipmentId \in RowIds, status \in ShipmentStatusInputs :
          UpdateShipmentStatus(userRole, shipmentId, status)

AdminSpec == AdminInit /\ [][AdminNext]_vars

----------------------------------------------------------------------------
(* Every route behind its middleware, every socket command behind the handshake *)

\* 'pending' is a status of every list, 'delivered' of the two routes' lists,
\* 'completed' of the list of 'update_shipment_status' alone
AuthStatusInputs == {"pending", "delivered", "completed"}

AdminOps == {"putOrderStatus", "putShipmentStatus", "putProductStock"}

UserOps == {"addToCart", "updateCartItem", "removeCartItem", "clearCart", "placeOrder"}

\* a request to /api/admin with that token
AdminRequest(token) ==
    \/ \E id \in RowIds, status \in AuthStatusInputs :
          requireAdmin(token).status = 0 /\ PutOrderStatus(id, status)
    \/ \E id \in RowIds, status \in AuthStatusInputs :
          requireAdmin(token).status = 0 /\ PutShipmentStatus(id, status)
    \/ \E id \in ProductIds, stock_quantity \in AdminQuantities :
          requireAdmin(token).status = 0 /\ PutProductStock(id, stock_quantity)
    \/ \E op \in AdminOps :
          requireAdmin(token).status # 0 /\ Refused(op, requireAdmin(token).status)

\* a request to /api/user with that token, req.user.id is the cart's user
UserRequest(token) ==
    \/ \E productId \in ProductIds, quantity \in Quantities :
          /\ requireUser(token).status = 0
          /\ AddToCart(requireUser(token).user.id, productId, quantity)
    \/ \E productId \in ProductIds, quantity \in Quantities :
          /\ requireUser(token).status = 0
          /\ UpdateCartItem(requireUser(token).user.id, productId, quantity)
    \/ \E productId \in ProductIds :
          /\ requireUser(token).status = 0
          /\ RemoveCartItem(requireUser(token).user.id, productId)
    \/ /\ requireUser(token).status = 0
       /\ ClearCart(requireUser(token).user.id)
    \/ \E items \in ItemListsOf(Lines, 1), trackingNumber \in TrackingNumbers :
          /\ requireUser(token).status = 0
          /\ PlaceOrder(requireUser(token).user.id, items, trackingNumber, 0)
    \/ \E op \in UserOps :
          requireUser(token).status # 0 /\ Refused(op, requireUser(token).status)

\* a command of the socket whose handshake carried that token
SocketCommand(token) ==
    \/ \E productId \in ProductIds, quantity \in AdminQuantities :
          /\ SocketAuth(token).error = ""
          /\ InventoryUpdate(SocketAuth(token).user.role, productId, quantity)
    \/ \E orderId \in RowIds, status \in AuthStatusInputs :
          /\ SocketAuth(token).error = ""
          /\ UpdateOrderStatus(SocketAuth(token).user.role, orderId, status)
    \/ \E shipmentId \in RowIds, status \in AuthStatusInputs :
          /\ SocketAuth(token).error = ""
          /\ UpdateShipmentStatus(SocketAuth(token).user.role, shipmentId, status)
    \/ SocketAuth(token).error # "" /\ HandshakeRefused(SocketAuth(token).error)

AuthNext ==
    \E token \in Tokens :
        \/ AdminRequest(token)
        \/ UserRequest(token)
        \/ SocketCommand(token)

AuthSpec == AdminInit /\ [][AuthNext]_vars

----------------------------------------------------------------------------
(* GET /api/user/cart and the CartProvider of the browser *)

\* ORDER BY p.name ASC: '4K Ultra-HD Monitor' sorts before 'Quantum Laptop'
NameRank == [p \in ProductIds |-> IF ProductName[p] = "4K Ultra-HD Monitor" THEN 1 ELSE 2]

RECURSIVE OrderByName(_)
OrderByName(rows) ==
    IF rows = {} THEN << >>
    ELSE LET first == CHOOSE r \in rows :
                          \A other \in rows : NameRank[r.product_id] <= NameRank[other.product_id]
         IN  << first >> \o OrderByName(rows \ {first})

\* formattedCart: the user's cart rows joined with their products
FormattedCart(d, userId) ==
    LET cartItems == OrderByName(CartOf(d.cart_items, userId))
    IN  [i \in 1..Len(cartItems) |->
            [productId |-> cartItems[i].product_id,
             quantity |-> cartItems[i].quantity,
             stock_quantity |-> d.products[cartItems[i].product_id].stock_quantity]]

\* router.get('/cart'): the answer reaches the call that asked
GetCart(userId) ==
    /\ \E call \in client.calls :
          /\ call.phase = "get"
          /\ client' = [client EXCEPT !.calls = (@ \ {call}) \cup
                           {[call EXCEPT !.phase = "cart",
                                         !.payload = FormattedCart(db, userId)]}]
    /\ userId = client.user
    /\ pre' = db
    /\ resp' = [NoResponse EXCEPT !.op = "getCart", !.user = userId, !.status = 200]
    /\ emitted' = << >>
    /\ received' = {}
    /\ UNCHANGED <<db, adjusted, handled, faulted, orderData, userHistory, evaluations,
                   sockets, connectedUsers>>

RECURSIVE TotalItems(_, _)
\* calculateTotals(items).totalItems
TotalItems(items, i) ==
    IF i > Len(items) THEN 0 ELSE items[i].quantity + TotalItems(items, i + 1)

\* state.items.find(item => item.productId === productId): its index, 0 if none
Find(items, productId) ==
    IF \E i \in 1..Len(items) : items[i].productId = productId
    THEN CHOOSE i \in 1..Len(items) :
             /\ items[i].productId = productId
             /\ \A j \in 1..(i - 1) : items[j].productId # productId
    ELSE 0

RECURSIVE Filter(_, _, _)
\* state.items.filter(item => item.productId !== productIdToRemove)
Filter(items, productIdToRemove, i) ==
    IF i > Len(items) THEN << >>
    ELSE (IF items[i].productId # productIdToRemove THEN << items[i] >> ELSE << >>)
             \o Filter(items, productIdToRemove, i + 1)

\* cartReducer, on the items and the totals
cartReducer(state, action) ==
    CASE action.type = "LOAD_CART" ->
           [state EXCEPT !.items = action.payload,
                         !.totalItems = TotalItems(action.payload, 1)]
      [] action.type = "ADD_ITEM_LOCAL" ->
           LET product == action.payload.product
               quantity == action.payload.quantity
               updatedItems ==
                   IF Find(state.items, product.id) # 0
                   THEN [i \in 1..Len(state.items) |->
                            IF state.items[i].productId = product.id
                            THEN [state.items[i] EXCEPT !.quantity = @ + quantity]
                            ELSE state.items[i]]
                   ELSE Append(state.items,
                               [productId |-> product.id, quantity |-> quantity,
                                stock_quantity |-> product.stock_quantity])
           IN  [state EXCEPT !.items = updatedItems,
                             !.totalItems = TotalItems(updatedItems, 1)]
      [] action.type = "UPDATE_QUANTITY_LOCAL" ->
           LET updatedItems ==
                   [i \in 1..Len(state.items) |->
                       IF state.items[i].productId = action.payload.productId
                       THEN [state.items[i] EXCEPT !.quantity = action.payload.newQuantity]
                       ELSE state.items[i]]
           IN  [state EXCEPT !.items = updatedItems,
                             !.totalItems = TotalItems(updatedItems, 1)]
      [] action.type = "REMOVE_ITEM_LOCAL" ->
           LET updatedItems == Filter(state.items, action.payload, 1)
           IN  [state EXCEPT !.items = updatedItems,
                             !.totalItems = TotalItems(updatedItems, 1)]
      [] action.type = "CLEAR_CART_LOCAL" ->
           [state EXCEPT !.items = << >>, !.totalItems = 0]
      [] OTHER -> state

\* a userAPI call that has been sent, or the userAPI.getCart() of a fetch
Call(state, op, items, phase) ==
    [id |-> state.issued + 1, op |-> op, items |-> items, phase |-> phase,
     ok |-> FALSE, payload |-> << >>]

\* dispatch the local change, then await the userAPI call
DispatchAndCall(action, op, items) ==
    /\ handled + Cardinality({call \in client.calls : call.phase = "request"}) < MaxRequests
    /\ client' = [cartReducer(client, action) EXCEPT
                     !.calls = @ \cup {Call(client, op, items, "request")},
                     !.issued = @ + 1]
    /\ UNCHANGED <<db, pre, resp, emitted, adjusted, handled, faulted, orderData,
                   userHistory, evaluations, sockets, received, connectedUsers>>

removeItem(productId) ==
    /\ client.mounted
    /\ DispatchAndCall([type |-> "REMOVE_ITEM_LOCAL", payload |-> productId],
                       "removeCartItem", << [productId |-> productId, quantity |-> 0] >>)

updateQuantity(productId, newQuantity) ==
    LET itemToUpdate == Find(client.items, productId)
    IN  /\ itemToUpdate # 0
        /\ IF newQuantity <= 0
           THEN removeItem(productId)
           ELSE /\ newQuantity <= client.items[itemToUpdate].stock_quantity
                /\ DispatchAndCall([type |-> "UPDATE_QUANTITY_LOCAL",
                                    payload |-> [productId |-> productId,
                                                 newQuantity |-> newQuantity]],
                                   "updateCartItem",
                                   << [productId |-> productId, quantity |-> newQuantity] >>)

\* product is a row of the products page, as the server holds it
addItem(productId, quantity) ==
    LET product == [id |-> productId,
                    stock_quantity |-> db.products[productId].stock_quantity]
        existingCartItem == Find(client.items, productId)
        currentQuantityInCart ==
            IF existingCartItem # 0 THEN client.items[existingCartItem].quantity ELSE 0
    IN  /\ product.stock_quantity # 0
        /\ currentQuantityInCart + quantity <= product.stock_quantity
        /\ DispatchAndCall([type |-> "ADD_ITEM_LOCAL",
                            payload |-> [product |-> product, quantity |-> quantity]],
                           "addToCart",
                           << [productId |-> productId, quantity |-> quantity] >>)

clearCart ==
    /\ client.mounted
    /\ DispatchAndCall([type |-> "CLEAR_CART_LOCAL"], "clearCart", << >>)

\* the local cart is cleared only when the order has been answered
placeOrder ==
    /\ Len(client.items) # 0
    /\ DispatchAndCall([type |-> "SET_LOADING"], "placeOrder",
                       [i \in 1..Len(client.items) |->
                           [productId |-> client.items[i].productId,
                            quantity |-> client.items[i].quantity]])

\* the awaited userAPI call returns or throws: fetchCartFromBackend() is called,
\* after CLEAR_CART_LOCAL when it was an order and it was placed
Resume(call) ==
    /\ call \in client.calls
    /\ call.phase = "response"
    /\ LET action == IF call.op = "placeOrder" /\ call.ok
                     THEN [type |-> "CLEAR_CART_LOCAL"] ELSE [type |-> "SET_LOADING"]
       IN  client' = [cartReducer(client, action) EXCEPT
                         !.calls = (@ \ {call}) \cup {[call EXCEPT !.phase = "get"]}]
    /\ UNCHANGED <<db, pre, resp, emitted, adjusted, handled, faulted, orderData,
                   userHistory, evaluations, sockets, received, connectedUsers>>

\* handleCartUpdate: data.userId === user.id, fetchCartFromBackend() is called
handleCartUpdate ==
    /\ client.inbox > 0
    /\ client' = [client EXCEPT !.inbox = @ - 1,
                                !.calls = @ \cup {Call(client, "getCart", << >>, "get")},
                                !.issued = @ + 1]
    /\ UNCHANGED <<db, pre, resp, emitted, adjusted, handled, faulted, orderData,
                   userHistory, evaluations, sockets, received, connectedUsers>>

\* fetchCartFromBackend after its await: LOAD_CART with response.data
fetchCartFromBackend(call) ==
    /\ call \in client.calls
    /\ call.phase = "cart"
    /\ client' = [cartReducer(client, [type |-> "LOAD_CART", payload |-> call.payload])
                     EXCEPT !.calls = @ \ {call}]
    /\ UNCHANGED <<db, pre, resp, emitted, adjusted, handled, faulted, orderData,
                   userHistory, evaluations, sockets, received, connectedUsers>>

ClientUser == 2

\* the provider has just mounted: its first fetchCartFromBackend() is in flight
MountedClient ==
    [mounted |-> TRUE, user |-> ClientUser, items |-> << >>, totalItems |-> 0,
     calls |-> {Call(NoClient, "getCart", << >>, "get")}, issued |-> 1, inbox |-> 0]

ClientInit ==
    /\ db = InitialDb
    /\ pre = InitialDb
    /\ resp = NoResponse
    /\ emitted = << >>
    /\ adjusted = {}
    /\ handled = 0
    /\ faulted = FALSE
    /\ orderData = NoOrderData
    /\ userHistory = NoHistory
    /\ evaluations = << >>
    /\ sockets = {}
    /\ received = {}
    /\ connectedUsers = NoConnectedUsers
    /\ client = MountedClient

\* a request of the browser that the server has not handled yet
Requested(op) == {call \in client.calls : call.phase = "request" /\ call.op = op}

ClientNext ==
    \/ \E productId \in ProductIds, quantity \in Quantities : addItem(productId, quantity)
    \/ \E productId \in ProductIds, newQuantity \in SetQuantities :
          updateQuantity(productId, newQuantity)
    \/ \E productId \in ProductIds : removeItem(productId)
    \/ clearCart
    \/ placeOrder
    \/ handleCartUpdate
    \/ \E call \in client.calls : Resume(call)
    \/ \E call \in client.calls : fetchCartFromBackend(call)
    \/ GetCart(ClientUser)
    \/ \E call \in Requested("addToCart") :
          AddToCart(ClientUser, call.items[1].productId, call.items[1].quantity)
    \/ \E call \in Requested("updateCartItem") :
          UpdateCartItem(ClientUser, call.items[1].productId, call.items[1].quantity)
    \/ \E call \in Requested("removeCartItem") :
          RemoveCartItem(ClientUser, call.items[1].productId)
    \/ \E call \in Requested("clearCart") : ClearCart(ClientUser)
    \/ \E call \in Requested("placeOrder"), trackingNumber \in TrackingNumbers :
          PlaceOrder(ClientUser, call.items, trackingNumber, 0)

ClientSpec == ClientInit /\ [][ClientNext]_vars

----------------------------------------------------------------------------
(* The additive model of the fraud score, from its description *)

Parseable(total_amount) == total_amount.type \in {"number", "numericString"}

RefHighValue(order) == Parseable(order.total_amount) /\ order.total_amount.value > 100000

RefFirstTime(order, history) ==
    /\ history.type = "object"
    /\ history.total_orders = 0
    /\ Parseable(order.total_amount)
    /\ order.total_amount.value > 50000

RefBulk(order) ==
    /\ order.items.type = "array"
    /\ \E i \in 1..Len(order.items.elements) :
          LET item == order.items.elements[i]
          IN  /\ "price" \in DOMAIN item /\ item.price > 30000
              /\ "quantity" \in DOMAIN item /\ item.quantity > 3

RefScore(order, history) ==
    (IF RefHighValue(order) THEN 40 ELSE 0)
    + (IF RefFirstTime(order, history) THEN 50 ELSE 0)
    + (IF RefBulk(order) THEN 30 ELSE 0)
    + (IF ~Parseable(order.total_amount) THEN 10 ELSE 0)

RefBand(score) ==
    IF score >= 70 THEN "high" ELSE IF 40 <= score /\ score < 70 THEN "medium" ELSE "low"

RefTriggered(order, history) ==
    (IF RefHighValue(order) THEN {"high_value"} ELSE {})
    \cup (IF RefFirstTime(order, history) THEN {"first_time"} ELSE {})
    \cup (IF RefBulk(order) THEN {"bulk"} ELSE {})
    \cup (IF ~Parseable(order.total_amount) THEN {"invalid_amount"} ELSE {})

InRuleOrder(ruleOrder, triggered) == SelectSeq(ruleOrder, LAMBDA r : r \in triggered)

RulesOf(evaluation) ==
    LET reasons == JSONParse(evaluation.fraud_reasons).elements
    IN  [i \in 1..Len(reasons) |-> reasons[i].rule]

\* C11, as claimed: detectFraudRisk returns the band of the additive score (40
\* high value, 50 first-time, 30 bulk, 10 unparseable amount) and one reason per
\* triggered rule in the order high value, first-time, bulk, unparseable amount.
C11_ReasonsInClaimedOrder ==
    \A i \in 1..Len(evaluations) :
        /\ ~evaluations[i].threw
        /\ evaluations[i].fraud_risk = RefBand(RefScore(orderData, userHistory))
        /\ RulesOf(evaluations[i])
               = InRuleOrder(<< "high_value", "first_time", "bulk", "invalid_amount" >>,
                             RefTriggered(orderData, userHistory))

\* C11, amended: the same band, and one reason per triggered rule in the order
\* unparseable amount, high value, first-time, bulk.
C11_AdditiveModel ==
    \A i \in 1..Len(evaluations) :
        /\ ~evaluations[i].threw
        /\ evaluations[i].fraud_risk = RefBand(RefScore(orderData, userHistory))
        /\ RulesOf(evaluations[i])
               = InRuleOrder(<< "invalid_amount", "high_value", "first_time", "bulk" >>,
                             RefTriggered(orderData, userHistory))

\* C11 witness: an amount that is not a number together with a bulk line has
\* been scored 10 + 30, 'medium', the amount's reason before the bulk reason
C11_Witness ==
    /\ Len(evaluations) >= 1
    /\ ~Parseable(orderData.total_amount)
    /\ RefBulk(orderData)
    /\ evaluations[1].fraud_risk = "medium"
    /\ RulesOf(evaluations[1]) = << "invalid_amount", "bulk" >>

\* The order row the last request stored, and its reasons decoded
StoredOrder == db.orders[Len(db.orders)]

StoredRules(order) ==
    LET reasons == JSONParse(JSONParse(order.fraud_reasons)).elements
    IN  {reasons[i].rule : i \in 1..Len(reasons)}

PriorOrders(userId) ==
    Cardinality({i \in 1..Len(pre.orders) : pre.orders[i].user_id = userId})

BulkLine(item) ==
    /\ item.productId \in ProductIds
    /\ pre.products[item.productId].price > 30000
    /\ item.quantity > 3

\* C12: a committed order with a line of more than 3 units of a product priced
\* above 300 is stored with the bulk reason, and, when its customer has prior
\* orders and the total is above 1000, with fraud_risk 'high' (40 + 30).
C12_BulkRuleInOrderFlow ==
    (OrderCommitted /\ \E i \in 1..Len(resp.items) : BulkLine(resp.items[i]))
    => /\ "bulk" \in StoredRules(StoredOrder)
       /\ (PriorOrders(resp.user) > 0 /\ StoredOrder.total_amount > 100000)
              => StoredOrder.fraud_risk = "high"

\* C13: the history an order is scored with counts the orders of its user that
\* were committed before it; a user's first order with a total above 1000 is
\* stored 'high' with the high-value and the first-time reason; an order of a
\* user who has an earlier order is stored without the first-time reason.
C13_FirstTimeLargeOrder ==
    OrderCommitted =>
        /\ userHistory.type = "object"
        /\ userHistory.total_orders = PriorOrders(resp.user)
        /\ (PriorOrders(resp.user) = 0 /\ StoredOrder.total_amount > 100000)
               => /\ StoredOrder.fraud_risk = "high"
                  /\ {"high_value", "first_time"} \subseteq StoredRules(StoredOrder)
        /\ PriorOrders(resp.user) > 0 => "first_time" \notin StoredRules(StoredOrder)

\* C13 witness: the second order of a user, above 500, whose first order was
\* stored 'high' with both reasons
C13_Witness ==
    /\ OrderCommitted
    /\ Len(pre.orders) = 1
    /\ StoredOrder.total_amount > 50000
    /\ pre.orders[1].user_id = resp.user
    /\ pre.orders[1].fraud_risk = "high"
    /\ StoredRules(pre.orders[1]) = {"high_value", "first_time"}
    /\ "first_time" \notin StoredRules(StoredOrder)

RECURSIVE LinesTotal(_, _, _)
LinesTotal(order_items, orderId, i) ==
    IF i > Len(order_items) THEN 0
    ELSE (IF order_items[i].order_id = orderId
          THEN order_items[i].price * order_items[i].quantity ELSE 0)
         + LinesTotal(order_items, orderId, i + 1)

LinesOf(d, orderId) == SelectSeq(d.order_items, LAMBDA row : row.order_id = orderId)

\* C15: the total_amount of every committed order is the sum of price times
\* quantity over its order_items rows, each price being the product's price when
\* the order was placed, and no later request (an order, a stock update by an
\* admin) changes the order's total_amount or its order_items rows.
C15_PriceSnapshot ==
    /\ [](\A o \in 1..Len(db.orders) :
            /\ db.orders[o].total_amount = LinesTotal(db.order_items, o, 1)
            /\ \A i \in 1..Len(db.order_items) :
                  db.order_items[i].price = ProductPrice[db.order_items[i].product_id])
    /\ [][\A o \in 1..Len(db.orders) :
            /\ Len(db'.orders) >= o
            /\ db'.orders[o].total_amount = db.orders[o].total_amount
            /\ LinesOf(db', o) = LinesOf(db, o)]_vars

\* C15 witness: an admin has changed the stock of a product that is on a line of
\* a committed order
C15_Witness ==
    /\ resp.op \in {"putProductStock", "inventory_update"}
    /\ resp.error.kind = "none"
    /\ db.products # pre.products
    /\ \E i \in 1..Len(db.order_items) :
          db.order_items[i].product_id = resp.items[1].productId

\* the quantity of the user's line for the product, 0 when there is no line
CartLine(d, userId, productId) ==
    LET rows == SelectCartItem(d.cart_items, userId, productId)
    IN  IF rows = {} THEN 0 ELSE (CHOOSE row \in rows : TRUE).quantity

OtherLinesKept(userId, productId) ==
    db.cart_items \ SelectCartItem(db.cart_items, userId, productId)
        = pre.cart_items \ SelectCartItem(pre.cart_items, userId, productId)

\* C16: POST /cart/items of quantity q for user U and product P succeeds only if
\* P exists, q > 0 and the quantity U's cart holds of P plus q is at most the
\* stock of P; on success the line holds the old quantity plus q (q when there
\* was no line) and no other line changes; on rejection no cart line changes.
C16_AddOrIncrement ==
    resp.op = "addToCart" =>
        LET u == resp.user
            p == resp.items[1].productId
            q == resp.items[1].quantity
            existing == CartLine(pre, u, p)
        IN  IF resp.status \in {200, 201}
            THEN /\ p \in DOMAIN pre.products
                 /\ q > 0
                 /\ existing + q <= pre.products[p].stock_quantity
                 /\ CartLine(db, u, p) = existing + q
                 /\ OtherLinesKept(u, p)
                 /\ db.products = pre.products
            ELSE db = pre

\* C16 witness: a line of one unit has been incremented by one
C16_Witness ==
    /\ resp.op = "addToCart"
    /\ resp.status = 200
    /\ CartLine(pre, resp.user, resp.items[1].productId) = 1
    /\ resp.items[1].quantity = 1
    /\ CartLine(db, resp.user, resp.items[1].productId) = 2

\* What holds of PUT /cart/items/:productId for a quantity above 0: the line is
\* set to the quantity when it exists and the stock allows it, otherwise nothing
\* changes; above the stock the request is rejected; no line is created.
SetPositiveQuantity(u, p, q) ==
    LET existing == CartLine(pre, u, p)
    IN  /\ OtherLinesKept(u, p)
        /\ db.products = pre.products
        /\ IF resp.status = 200
           THEN /\ p \in DOMAIN pre.products
                /\ existing > 0
                /\ q <= pre.products[p].stock_quantity
                /\ CartLine(db, u, p) = q
           ELSE db = pre
        /\ (p \in DOMAIN pre.products /\ q > pre.products[p].stock_quantity)
               => (resp.status = 400 /\ db = pre)
        /\ existing = 0 => CartLine(db, u, p) = 0

\* C17, as claimed: PUT /cart/items/:productId with quantity <= 0 deletes the
\* line and answers with success, whether or not the line exists; with quantity
\* > 0 it behaves as SetPositiveQuantity says.
C17_SetQuantity ==
    resp.op = "updateCartItem" =>
        LET u == resp.user
            p == resp.items[1].productId
            q == resp.items[1].quantity
        IN  IF q <= 0
            THEN /\ resp.status = 200
                 /\ CartLine(db, u, p) = 0
                 /\ OtherLinesKept(u, p)
            ELSE SetPositiveQuantity(u, p, q)

\* C17, amended: with quantity 0 and an existing product the line is deleted and
\* the answer is success, whether or not the line exists; a negative quantity is
\* answered 400 and an unknown product 404, both without change; with quantity
\* > 0 it behaves as SetPositiveQuantity says.
C17_SetQuantityOfKnownProduct ==
    resp.op = "updateCartItem" =>
        LET u == resp.user
            p == resp.items[1].productId
            q == resp.items[1].quantity
        IN  IF q < 0 THEN resp.status = 400 /\ db = pre
            ELSE IF p \notin DOMAIN pre.products THEN resp.status = 404 /\ db = pre
            ELSE IF q = 0
            THEN /\ resp.status = 200
                 /\ CartLine(db, u, p) = 0
                 /\ OtherLinesKept(u, p)
                 /\ db.products = pre.products
            ELSE SetPositiveQuantity(u, p, q)

\* C17 witness: a quantity above 0 for a product that is in stock but not in the
\* user's cart has been answered 404 and no line was created
C17_Witness ==
    /\ resp.op = "updateCartItem"
    /\ resp.items[1].quantity > 0
    /\ resp.items[1].productId \in ProductIds
    /\ CartLine(pre, resp.user, resp.items[1].productId) = 0
    /\ resp.items[1].quantity <= pre.products[resp.items[1].productId].stock_quantity
    /\ resp.status = 404
    /\ db = pre

\* C18: whenever a handler has changed the stock of a product, it has emitted an
\* 'inventory_changed' event for that product carrying the committed stock.
C18_StockMutationAnnounced ==
    \A p \in ProductIds :
        db.products[p].stock_quantity # pre.products[p].stock_quantity
        => \E i \in 1..Len(emitted) :
              /\ emitted[i].event = "inventory_changed"
              /\ emitted[i].productId = p
              /\ emitted[i].stock_quantity = db.products[p].stock_quantity

\* C19: a 'cart_updated' event of an order of user U reaches only the connected
\* clients whose user is U.
C19_CartUpdatedTargeted ==
    \A r \in received :
        r.event.event = "cart_updated" => r.userId = r.event.userId

TransactionsOf(p) == SelectSeq(db.inventory_transactions, LAMBDA row : row.product_id = p)

\* C20: for every product the inventory_transactions rows form a chain, each
\* previous_quantity being the new_quantity of the row before (the initial stock
\* for the first row), and the last new_quantity (the initial stock when there is
\* no row) is the product's stock.
C20_LedgerConsistency ==
    \A p \in ProductIds :
        LET rows == TransactionsOf(p)
        IN  /\ \A i \in 1..Len(rows) :
                  rows[i].previous_quantity
                      = IF i = 1 THEN InitialStock[p] ELSE rows[i - 1].new_quantity
            /\ db.products[p].stock_quantity
                  = IF rows = << >> THEN InitialStock[p] ELSE rows[Len(rows)].new_quantity

RECURSIVE OrderedQuantity(_, _, _)
OrderedQuantity(order_items, productId, i) ==
    IF i > Len(order_items) THEN 0
    ELSE (IF order_items[i].product_id = productId THEN order_items[i].quantity ELSE 0)
         + OrderedQuantity(order_items, productId, i + 1)

\* C21: a committed order takes from the stock of every product exactly the
\* quantities of its lines for that product added up, also when two of its lines
\* name the same product; so as long as no admin has written a product's stock,
\* its initial stock less its current stock is the quantity its order_items rows
\* record.
C21_StockConservation ==
    /\ OrderCommitted =>
          \A p \in ProductIds :
              pre.products[p].stock_quantity - db.products[p].stock_quantity
                  = RequestedQuantity(resp.items, p, 1)
    /\ \A p \in ProductIds :
          p \notin adjusted =>
              InitialStock[p] - db.products[p].stock_quantity
                  = OrderedQuantity(db.order_items, p, 1)

\* the moves of an order's status that the lifecycle has
OrderStatusMoves ==
    {<< "pending", "processing" >>, << "processing", "shipped" >>,
     << "shipped", "delivered" >>}
    \cup {<< from, "cancelled" >> : from \in {"pending", "processing", "shipped"}}

\* C22: whatever status updates the admin sends by REST or by socket, the status
\* of an order changes only from pending to processing, from processing to
\* shipped, from shipped to delivered, or from one of pending, processing and
\* shipped to cancelled; so a delivered or cancelled order keeps its status and
\* no order moves backwards.
C22_OrderStatusLifecycle ==
    [][\A o \in 1..Len(db.orders) :
          \/ db'.orders[o].status = db.orders[o].status
          \/ << db.orders[o].status, db'.orders[o].status >> \in OrderStatusMoves]_vars

ClaimedShipmentStatuses ==
    {"pending", "in_transit", "out_for_delivery", "delivered", "failed_attempt", "cancelled"}

\* C23: the status of every shipment is one of pending, in_transit,
\* out_for_delivery, delivered, failed_attempt and cancelled, by whichever path
\* it is updated; a shipment status update leaves the orders as they are and an
\* order status update leaves the shipments as they are.
C23_ShipmentStatusLifecycle ==
    /\ [](\A i \in 1..Len(db.shipments) : db.shipments[i].status \in ClaimedShipmentStatuses)
    /\ [][/\ resp'.op \in {"putShipmentStatus", "update_shipment_status"}
                => db'.orders = db.orders
          /\ resp'.op \in {"putOrderStatus", "update_order_status"}
                => db'.shipments = db.shipments]_vars

ShipmentsOf(d, orderId) == {i \in 1..Len(d.shipments) : d.shipments[i].order_id = orderId}

\* C24: a request that commits an order stores it 'pending' together with one
\* shipment, 'pending' as well; in every state every order has exactly one
\* shipment, which carries the order's tracking number, and every shipment
\* belongs to a stored order.
C24_CreatedTogether ==
    /\ OrderCommitted =>
          /\ StoredOrder.status = "pending"
          /\ Len(db.shipments) = Len(pre.shipments) + 1
          /\ db.shipments[Len(db.shipments)].status = "pending"
          /\ db.shipments[Len(db.shipments)].order_id = StoredOrder.id
    /\ \A o \in 1..Len(db.orders) :
          /\ db.orders[o].id = o
          /\ Cardinality(ShipmentsOf(db, o)) = 1
          /\ \A i \in ShipmentsOf(db, o) :
                db.shipments[i].tracking_number = db.orders[o].tracking_number
    /\ \A i \in 1..Len(db.shipments) : db.shipments[i].order_id \in 1..Len(db.orders)

\* C24 witness: an order has been committed with its shipment after a request
\* that a storage error stopped inside its transaction
C24_Witness ==
    /\ OrderCommitted
    /\ resp.status = 201
    /\ handled = 2
    /\ faulted
    /\ Len(db.orders) = 1
    /\ Len(db.shipments) = 1

TrackingNumbersOf(rows) == {rows[i].tracking_number : i \in 1..Len(rows)}

\* C25: no two orders and no two shipments hold the same tracking number; a
\* valid place-order request whose lines pass the stock check and whose generated
\* tracking number is already stored is answered 500 once and leaves no order, no
\* stock change and the cart as it was.
C25_TrackingUnique ==
    /\ [](/\ Cardinality(TrackingNumbersOf(db.orders)) = Len(db.orders)
          /\ Cardinality(TrackingNumbersOf(db.shipments)) = Len(db.shipments))
    /\ [][\A trackingNumber \in TrackingNumbers :
            (/\ resp'.op = "placeOrder"
             /\ trackingNumber \in TrackingNumbersOf(db.orders)
             /\ CreateOrderSchemaValid(resp'.items)
             /\ CheckedItems(db, resp'.items).error.kind = "none"
             /\ PlaceOrder(resp'.user, resp'.items, trackingNumber, 0))
            => (/\ resp'.status = 500
                /\ resp'.error.kind = "unique"
                /\ db' = db
                /\ emitted' = << >>
                /\ handled' = handled + 1)]_vars

\* C25 witness: a request has been refused for its tracking number, that of the
\* order stored before it
C25_Witness ==
    /\ IsOrder
    /\ resp.error.kind = "unique"
    /\ resp.failedAt = "insertOrder"
    /\ Len(pre.orders) = 1
    /\ db = pre

\* C26: whatever cart and order requests the users send, the cart_items table
\* holds at most one row per user and product and every row has a quantity of at
\* least 1; a set-quantity request of 0 leaves no row for its user and product.
C26_CartLineInvariant ==
    /\ \A r1, r2 \in db.cart_items :
          (r1.user_id = r2.user_id /\ r1.product_id = r2.product_id) => r1 = r2
    /\ \A row \in db.cart_items : row.quantity >= 1
    /\ (resp.op = "updateCartItem" /\ resp.items[1].quantity = 0 /\ resp.status = 200)
          => SelectCartItem(db.cart_items, resp.user, resp.items[1].productId) = {}

\* C26 witness: a line has been set to 0 and is gone, while the same user keeps
\* a line for the other product
C26_Witness ==
    /\ resp.op = "updateCartItem"
    /\ resp.items[1].quantity = 0
    /\ resp.status = 200
    /\ CartLine(pre, resp.user, resp.items[1].productId) >= 1
    /\ SelectCartItem(db.cart_items, resp.user, resp.items[1].productId) = {}
    /\ CartOf(db.cart_items, resp.user) # {}

\* order.fraud_reasons = JSON.parse(order.fraud_reasons || '[]') of the order
\* listing and the order detail
ReadFraudReasons(order) == JSONParse(order.fraud_reasons)

\* the list of reasons the evaluator built for the last order
EvaluatedReasons == JSONParse(evaluations[1].fraud_reasons)

\* C27: the fraud reasons stored with an order, decoded once as the order
\* listing, the order detail and the 'order_created' payload decode them, are the
\* list of reasons the evaluator produced, in its order; and the fraudReasons of
\* the success response is that list, not a string that encodes it.
C27_FraudReasonsRoundTrip ==
    (OrderCommitted /\ resp.status = 201) =>
        /\ EvaluatedReasons.type = "array"
        /\ ReadFraudReasons(StoredOrder) = EvaluatedReasons
        /\ \A i \in 1..Len(emitted) :
              emitted[i].event = "order_created"
                  => emitted[i].fraud_reasons = EvaluatedReasons
        /\ resp.fraudReasons = EvaluatedReasons


----------------------------------------------------------------------------
StockOf(d) == [p \in DOMAIN d.products |-> d.products[p].stock_quantity]

StatusesOf(rows) == [i \in 1..Len(rows) |-> rows[i].status]

\* the role of the identity a token stands for, "" when it stands for none
RoleOf(token) == authenticateToken(token).user.role

StockAndLifecycleKept ==
    /\ StockOf(db') = StockOf(db)
    /\ StatusesOf(db'.orders) = StatusesOf(db.orders)
    /\ StatusesOf(db'.shipments) = StatusesOf(db.shipments)
    /\ emitted' = << >>
    /\ received' = {}

\* C28: a request to /api/admin and a socket command 'inventory_update',
\* 'update_order_status' or 'update_shipment_status' of an identity whose role
\* is not 'admin' changes no product's stock, no order's status and no
\* shipment's status and broadcasts nothing; a request to /api/user that is not
\* authenticated is answered 401 or 403 and no cart or order operation runs:
\* the tables stay as they were and nothing is emitted.
C28_OnlyAdminsMutate ==
    [][\A token \in Tokens :
          /\ (RoleOf(token) # "admin" /\ AdminRequest(token)) => StockAndLifecycleKept
          /\ (RoleOf(token) # "admin" /\ SocketCommand(token)) => StockAndLifecycleKept
          /\ (authenticateToken(token).status # 0 /\ UserRequest(token))
                => /\ db' = db
                   /\ resp'.op \in UserOps
                   /\ resp'.status \in {401, 403}
                   /\ resp'.error.kind = "auth"
                   /\ emitted' = << >>]_vars

\* a request to /api/admin with a customer's token was answered 403 after an
\* admin's request had changed the tables
C28_Witness ==
    /\ resp.op \in AdminOps
    /\ resp.status = 403
    /\ resp.error.kind = "auth"
    /\ handled = 2
    /\ db = pre
    /\ db # OrderedDb


----------------------------------------------------------------------------
\* the users that have at least one connected socket
LiveUsers == {c.userId : c \in sockets}

\* C29: after any sequence of connects and disconnects, several sockets of one
\* user included, connectedUsers has an entry for a user exactly when the user
\* has a connected socket, and the totalUsers and onlineUsers of the latest
\* 'user_count_updated' are the number of users with a connected socket and
\* the number of them whose role is 'user'.
C29_SessionRegistry ==
    /\ DOMAIN connectedUsers = LiveUsers
    /\ resp.op \in {"connection", "disconnect"} =>
          /\ Len(emitted) = 1
          /\ emitted[1].event = "user_count_updated"
          /\ emitted[1].totalUsers = Cardinality(LiveUsers)
          /\ emitted[1].onlineUsers =
                Cardinality({u \in LiveUsers : Users[u].role = "user"})


----------------------------------------------------------------------------
\* the product and the quantity of each item of the browser's cart
LocalLines ==
    {[productId |-> client.items[i].productId, quantity |-> client.items[i].quantity] :
        i \in 1..Len(client.items)}

\* the product and the quantity of each cart row the server holds for the user
ServerLines ==
    {[productId |-> row.product_id, quantity |-> row.quantity] :
        row \in CartOf(db.cart_items, client.user)}

\* no call of the browser is in flight and no event waits to be handled
Settled == client.mounted /\ client.calls = {} /\ client.inbox = 0

\* C30: once every call the browser has made has completed, whatever the order
\* in which the responses arrived, the items of the browser's cart are the
\* server's cart lines of that user and totalItems is the sum of their
\* quantities.
C30_ClientCartConverges ==
    Settled =>
        /\ LocalLines = ServerLines
        /\ client.totalItems = TotalItems(client.items, 1)

====
